---- MODULE Spec2Model ----
(***************************************************************************)
(* Verification model of szmxwu/dicom_download.                            *)
(*                                                                         *)
(* Spec / FairSpec : the parallel pipeline of                              *)
(*   DICOMDownloadClient.process_complete_workflow (one downloader thread  *)
(*   running download_study, NUM_CONVERTERS _organize_worker threads, the  *)
(*   bounded series_queue, the main thread and its metadata task).         *)
(* ConvSpec : the converter threads of the process inside                  *)
(*   convert_dicom_to_nifti / convert_to_npz, i.e. convert_with_dcm2niix   *)
(*   (availability check, dcm2niix_global_lock, retry loop) followed by    *)
(*   the convert_with_python_libs fallback, and the rest of the entry      *)
(*   point.                                                                *)
(* StudySpec : one study job: its caller (process_single_task or main),    *)
(*   process_complete_workflow, and download_study with the query, the     *)
(*   embedded C-STORE SCP, the C-MOVE loop and its exit paths.             *)
(* SanSpec : _sanitize_folder_name applied once and twice to a name.       *)
(* OrSpec, ClSpec, DfSpec : MR_clean.get_orientation, classify_sequence    *)
(*   and stages 4-5 of process_mri_dataframe on bounded inputs.            *)
(* ListSpec : client_download.download_list, run after run over one        *)
(*   output directory with its progress file.                              *)
(* BatchSpec : process_batch_task of web/app.py on one batch job.          *)
(* WebSpec : the jobs of web/app.py, the cancel endpoint and the           *)
(*   cleanup_old_results thread.                                           *)
(***************************************************************************)
EXTENDS Integers, Sequences, FiniteSets, TLC

(***************************************************************************)
(* Bounds of the model.                                                    *)
(***************************************************************************)
\* capacity of series_queue (MAX_PENDING_SERIES, read from the environment)
MaxPending == 1
\* number of _organize_worker threads (NUM_CONVERTERS, read from the environment)
NumConverters == 2
\* largest number of series the C-FIND may discover for the accession
NumSeries == 5
\* largest number of .dcm files in a series directory handed to a converter
NumFiles == 2
\* largest number of series the C-FIND of a study job discovers
StudySeries == 2
\* largest number of instances the PACS sends for one series
MaxInstances == 2
\* longest tail of an input name of the folder-name sanitization
SanTail == 3
\* largest component of ImageOrientationPatient, in halves
OrientComp == 2
\* largest number of keyword-bearing words in a protocol name
MaxWords == 2
\* number of rows (series) of the frame given to process_mri_dataframe
NumRows == 4

(***************************************************************************)
(* Program constants.                                                      *)
(***************************************************************************)
\* default of DOWNLOAD_HIGH_WATERMARK_GB
HIGH_WATERMARK_GB == 45
\* default of DOWNLOAD_LOW_WATERMARK_GB
LOW_WATERMARK_GB == 40

\* range(3) of the dcm2niix retry loops
MAX_ATTEMPTS == 3
\* default of NUM_CONVERTERS: the converter threads of a process that run
\* conversions side by side
DEFAULT_NUM_CONVERTERS == 2
\* _sanitize_folder_name: if len(name) > 50: name = name[:50]
MAX_NAME_LEN == 50
\* default of orientation.oblique_dominance_ratio, 0.9, as a fraction
RATIO_NUM == 9
RATIO_DEN == 10

\* directory sizes (GB) _get_dir_size_gb may report: below, at and between the
\* watermarks, at and above the high watermark
DirSizes == {LOW_WATERMARK_GB - 1, LOW_WATERMARK_GB, LOW_WATERMARK_GB + 2,
             HIGH_WATERMARK_GB, HIGH_WATERMARK_GB + 1}

Series == 1..NumSeries
Converters == 1..NumConverters
\* the converter threads of the conversion model
Workers == 1..DEFAULT_NUM_CONVERTERS
\* the sentinel None that process_complete_workflow puts on series_queue
Sentinel == 0

VARIABLES
    \* ---- main thread of process_complete_workflow
    main_pc,          \* position of the main thread
    sentinels_put,    \* sentinels enqueued so far by the main thread
    \* ---- downloader thread (_download_worker -> download_study)
    dl_pc,            \* position of the downloader thread
    series_metadata,  \* number of series returned by _query_series_metadata
    dl_i,             \* index of the series of the current loop iteration
    current,          \* local `current` of _wait_for_disk_low (0: not in the call)
    files_received,   \* storage_state['files_received'] > 0
    download_path,    \* download_dir_holder['path']: "None" or "path"
    downloaded,       \* series whose C-MOVE has completed
    \* ---- series_queue (queue.Queue(maxsize=max_pending))
    series_queue,     \* the items waiting in the queue, oldest first
    unfinished_tasks, \* Queue.unfinished_tasks (put: +1, task_done: -1)
    \* ---- converter threads (_organize_worker)
    conv_pc,          \* position of each converter
    conv_item,        \* the series a converter is processing (0: none)
    conv_raised,      \* the last _process_single_series call raised
    sentinels_got,    \* sentinels each converter has taken
    taken,            \* how many times each series was taken from the queue
    processed,        \* series whose _process_single_series call has returned
    \* ---- conversion threads (convert_dicom_to_nifti / convert_to_npz)
    dcm2niix_global_lock, \* holder of the lock (0: free)
    cv,               \* per thread: position and locals of the running conversion
    \* ---- one study job: caller, process_complete_workflow, download_study
    task,             \* the job and its workflow (see TaskIdle)
    study,            \* the download_study call of the job (see StudyIdle)
    pacs_pending,     \* per series: C-STORE sub-operations the PACS has yet to send
    stored,           \* <<series, directory>> of every instance handle_store saved
    dirs,             \* directories of the job that exist under the output directory
    \* ---- folder-name sanitization
    san_pc,           \* "idle", "input", "once", "twice"
    san_version,      \* which _sanitize_folder_name: "unified", "legacy"
    san_name,         \* the input name
    san_once,         \* _sanitize_folder_name(name)
    san_twice,        \* _sanitize_folder_name(_sanitize_folder_name(name))
    \* ---- MR_clean.get_orientation on one row
    or_pc,            \* "idle", "input", "done"
    or_iop,           \* ImageOrientationPatient, in halves (<<>>: null or unparsable)
    or_kw,            \* orientation whose fallback keyword is in the protocol name
    or_result,        \* the value returned
    \* ---- MR_clean.classify_sequence on one row
    cl_pc,            \* "idle", "input", "classified", "done"
    cl_row,           \* the row (see ClRows)
    cl_base,          \* base_class after rules A, B and C
    cl_result,        \* the parts of the label returned, or Raised
    \* ---- MR_clean.process_mri_dataframe, stages 4 and 5, on one frame
    df_pc,            \* "idle", "input", "analyzed", "recomputed", "returned"
    df,               \* the frame: the sequence of its rows (see DfRows)
    \* ---- client_download.download_list, run after run on one output_dir
    list_pc,          \* "idle", "loop", "polling", "download", "returned",
                      \* "done"
    acc_list,         \* the accessions given to the current run
    list_i,           \* position of the for loop in acc_list
    completed,        \* the set `completed` of the current run
    progress_file,    \* accessions listed in .download_progress.json
    ok,               \* value main(main_args) returned for the accession
    list_runs,        \* runs of download_list that have ended
    submitted,        \* accessions posted to /api/process/single in this run
    extracted,        \* accessions whose result was downloaded and extracted
    failed_now,       \* accessions for which main returned False in this run
    failed_before,    \* accessions left failed by the previous run
    \* ---- web/app.py: one batch job (process_batch_task)
    batch,            \* the job: see BatchIdle
    \* ---- web/app.py: jobs, the cancel endpoint and cleanup_old_results
    jobs,             \* per task: its status, its worker thread, its items
    cleanup           \* the cleanup thread: see CleanupIdle

(***************************************************************************)
(* cv[w], the conversion a converter thread w is running:                  *)
(*   pc                position inside the entry point                     *)
(*   entry             entry point: "nifti" (convert_dicom_to_nifti),      *)
(*                     "npz" (convert_to_npz), "none"                      *)
(*   mode              "series", "individual" (DR/MG/DX), "none"           *)
(*   dicom_files       number of .dcm files listed in the series directory *)
(*   idx               individual mode: index of the file being converted  *)
(*   runs              conversion commands run in the current retry loop   *)
(*                     (the loop variable `attempt` is runs - 1 once run   *)
(*                     number `runs` has ended)                            *)
(*   returncode        result.returncode of the last run: 0, 1 (any        *)
(*                     non-zero code), -1 (result is None)                 *)
(*   raised            the last subprocess.run raised (TimeoutExpired)     *)
(*   available         `dcm2niix -h` check: "none", "ok", "missing"        *)
(*   file_output       individual mode: the output named for file idx      *)
(*                     exists                                              *)
(*   success_count     individual mode: files converted so far             *)
(*   has_output        an output file exists in the series directory       *)
(*   originals_deleted the .dcm files of the series have been removed      *)
(*   tool_result       convert_with_dcm2niix: "none", "success", "failure" *)
(*   py_result         convert_with_python_libs: likewise                  *)
(*   conversion_map    the kinds of file names ("nii", "npz") that are     *)
(*                     keys of conversion_map in dicom_metadata_cache.json *)
(***************************************************************************)

pipeVars == <<main_pc, sentinels_put, dl_pc, series_metadata, dl_i, current,
              files_received, download_path, downloaded, series_queue,
              unfinished_tasks, conv_pc, conv_item, conv_raised, sentinels_got,
              taken, processed>>

cvVars == <<dcm2niix_global_lock, cv>>

studyVars == <<task, study, pacs_pending, stored, dirs>>

sanVars == <<san_pc, san_version, san_name, san_once, san_twice>>

orVars == <<or_pc, or_iop, or_kw, or_result>>

clVars == <<cl_pc, cl_row, cl_base, cl_result>>

dfVars == <<df_pc, df>>

mrVars == <<orVars, clVars, dfVars>>

listVars == <<list_pc, acc_list, list_i, completed, progress_file, ok,
              list_runs, submitted, extracted, failed_now, failed_before>>

batchVars == <<batch>>

webVars == <<jobs, cleanup>>

appVars == <<listVars, batchVars, webVars>>

vars == <<pipeVars, cvVars, studyVars, sanVars, mrVars, appVars>>

\* what the actions of one part of the program leave alone
besidesPipe == <<cvVars, studyVars, sanVars, mrVars, appVars>>
besidesCv == <<pipeVars, studyVars, sanVars, mrVars, appVars>>
besidesStudy == <<pipeVars, cvVars, sanVars, mrVars, appVars>>
besidesSan == <<pipeVars, cvVars, studyVars, mrVars, appVars>>
besidesOr == <<pipeVars, cvVars, studyVars, sanVars, clVars, dfVars, appVars>>
besidesCl == <<pipeVars, cvVars, studyVars, sanVars, orVars, dfVars, appVars>>
besidesDf == <<pipeVars, cvVars, studyVars, sanVars, orVars, clVars, appVars>>
besidesList == <<pipeVars, cvVars, studyVars, sanVars, mrVars, batchVars, webVars>>
besidesBatch == <<pipeVars, cvVars, studyVars, sanVars, mrVars, listVars, webVars>>
besidesWeb == <<pipeVars, cvVars, studyVars, sanVars, mrVars, listVars, batchVars>>

(***************************************************************************)
(* queue.Queue                                                             *)
(***************************************************************************)
\* mutant: put() never blocks (an unbounded queue)
QueueHasRoomUnbounded == TRUE

\* mutant: put() admits one item more than maxsize
QueueHasRoomOffByOne == Len(series_queue) <= MaxPending

\* Queue.put blocks while the queue holds maxsize items
QueueHasRoom == Len(series_queue) < MaxPending

\* mutant: join() returns at once
QueueJoinedNoWait == TRUE

\* Queue.join returns when every put item has been marked task_done
QueueJoined == unfinished_tasks = 0

\* Queue.put(item)
QueuePut(item) ==
    /\ QueueHasRoom
    /\ series_queue' = Append(series_queue, item)
    /\ unfinished_tasks' = unfinished_tasks + 1

(***************************************************************************)
(* _wait_for_disk_low                                                      *)
(***************************************************************************)
\* the loop is entered (and re-entered) while current >= high
AboveHigh(size) == size >= HIGH_WATERMARK_GB

\* the break inside the loop: current <= low
AtOrBelowLow(size) == size <= LOW_WATERMARK_GB

\* after one poll inside the loop: break when current <= low, otherwise the
\* while condition current >= high decides
WaitContinues(size) == ~AtOrBelowLow(size) /\ AboveHigh(size)

(***************************************************************************)
(* Initial state: process_complete_workflow has created the queue and the  *)
(* holders, no thread has been started.                                    *)
(***************************************************************************)
PipeInit ==
    /\ main_pc = "start"
    /\ sentinels_put = 0
    /\ dl_pc = "idle"
    /\ series_metadata = 0
    /\ dl_i = 0
    /\ current = 0
    /\ files_received = FALSE
    /\ download_path = "None"
    /\ downloaded = {}
    /\ series_queue = <<>>
    /\ unfinished_tasks = 0
    /\ conv_pc = [w \in Converters |-> "idle"]
    /\ conv_item = [w \in Converters |-> 0]
    /\ conv_raised = [w \in Converters |-> FALSE]
    /\ sentinels_got = [w \in Converters |-> 0]
    /\ taken = [s \in Series |-> 0]
    /\ processed = {}

mainVars == <<main_pc, sentinels_put>>
dlVars == <<dl_pc, series_metadata, dl_i, current, files_received,
            download_path, downloaded>>
queueVars == <<series_queue, unfinished_tasks>>
convVars == <<conv_pc, conv_item, conv_raised, sentinels_got, taken, processed>>

(***************************************************************************)
(* Downloader thread: _download_worker running download_study              *)
(***************************************************************************)
\* _query_series_metadata: no study / no association gives [], else the series
DlQuery ==
    /\ dl_pc = "query"
    /\ \E n \in 0..NumSeries :
          /\ series_metadata' = n
          /\ IF n = 0
             THEN /\ dl_pc' = "finished"       \* return None; download_done.set()
                  /\ download_path' = "None"
             ELSE /\ dl_pc' = "associate"
                  /\ UNCHANGED download_path
    /\ UNCHANGED <<dl_i, current, files_received, downloaded>>
    /\ UNCHANGED <<mainVars, queueVars, convVars>>
    /\ UNCHANGED besidesPipe

\* start the C-STORE SCP, then self.ae.associate(...) for the C-MOVEs
DlAssociate ==
    /\ dl_pc = "associate"
    /\ \/ /\ dl_pc' = "finished"               \* not established: return None
          /\ download_path' = "None"
          /\ UNCHANGED dl_i
       \/ /\ dl_pc' = "disk"                   \* first loop iteration
          /\ dl_i' = 1
          /\ UNCHANGED download_path
    /\ UNCHANGED <<series_metadata, current, files_received, downloaded>>
    /\ UNCHANGED <<mainVars, queueVars, convVars>>
    /\ UNCHANGED besidesPipe

\* _wait_for_disk_low: the first reading, before the loop
DlWaitEnter ==
    /\ dl_pc = "disk"
    /\ \E size \in DirSizes :
          /\ current' = size
          /\ dl_pc' = IF AboveHigh(size) THEN "disk_sleep" ELSE "send_move"
    /\ UNCHANGED <<series_metadata, dl_i, files_received, download_path, downloaded>>
    /\ UNCHANGED <<mainVars, queueVars, convVars>>
    /\ UNCHANGED besidesPipe

\* _wait_for_disk_low: one turn of the loop (sleep, read the size again)
DlWaitPoll ==
    /\ dl_pc = "disk_sleep"
    /\ \E size \in DirSizes :
          /\ current' = size
          /\ dl_pc' = IF WaitContinues(size) THEN "disk_sleep" ELSE "send_move"
    /\ UNCHANGED <<series_metadata, dl_i, files_received, download_path, downloaded>>
    /\ UNCHANGED <<mainVars, queueVars, convVars>>
    /\ UNCHANGED besidesPipe

\* assoc.send_c_move for series dl_i (the local `current` is gone)
DlSendMove ==
    /\ dl_pc = "send_move"
    /\ dl_pc' = "move"
    /\ current' = 0
    /\ UNCHANGED <<series_metadata, dl_i, files_received, download_path, downloaded>>
    /\ UNCHANGED <<mainVars, queueVars, convVars>>
    /\ UNCHANGED besidesPipe

\* the C-MOVE responses end (any status, or none); handle_store may have
\* stored files of the series meanwhile
DlMoveDone ==
    /\ dl_pc = "move"
    /\ dl_pc' = "deliver"
    /\ downloaded' = downloaded \cup {dl_i}
    /\ \E got \in BOOLEAN : files_received' = (files_received \/ got)
    /\ UNCHANGED <<series_metadata, dl_i, current, download_path>>
    /\ UNCHANGED <<mainVars, queueVars, convVars>>
    /\ UNCHANGED besidesPipe

\* on_series_downloaded -> _on_series_downloaded: series_queue.put((dir, folder)),
\* then the next iteration or, after the last series, the return of download_study
DlDeliver ==
    /\ dl_pc = "deliver"
    /\ QueuePut(dl_i)
    /\ IF dl_i < series_metadata
       THEN /\ dl_i' = dl_i + 1
            /\ dl_pc' = "disk"
            /\ UNCHANGED download_path
       ELSE /\ dl_pc' = "finished"
            /\ download_path' = IF files_received THEN "path" ELSE "None"
            /\ UNCHANGED dl_i
    /\ UNCHANGED <<series_metadata, current, files_received, downloaded>>
    /\ UNCHANGED <<mainVars, convVars>>
    /\ UNCHANGED besidesPipe

(***************************************************************************)
(* Converter threads: _organize_worker                                     *)
(***************************************************************************)
\* item = series_queue.get(); a sentinel is marked done at once and ends the loop
ConvGet(w) ==
    /\ conv_pc[w] = "get"
    /\ series_queue # <<>>
    /\ series_queue' = Tail(series_queue)
    /\ IF Head(series_queue) = Sentinel
       THEN /\ conv_pc' = [conv_pc EXCEPT ![w] = "exit"]
            /\ sentinels_got' = [sentinels_got EXCEPT ![w] = @ + 1]
            /\ unfinished_tasks' = unfinished_tasks - 1
            /\ UNCHANGED <<conv_item, taken>>
       ELSE /\ conv_pc' = [conv_pc EXCEPT ![w] = "process"]
            /\ conv_item' = [conv_item EXCEPT ![w] = Head(series_queue)]
            /\ taken' = [taken EXCEPT ![Head(series_queue)] = @ + 1]
            /\ UNCHANGED <<sentinels_got, unfinished_tasks>>
    /\ UNCHANGED <<conv_raised, processed>>
    /\ UNCHANGED <<mainVars, dlVars>>
    /\ UNCHANGED besidesPipe

\* self._process_single_series(...) returns, or raises (caught and printed)
ConvProcess(w) ==
    /\ conv_pc[w] = "process"
    /\ conv_pc' = [conv_pc EXCEPT ![w] = "task_done"]
    /\ processed' = processed \cup {conv_item[w]}
    /\ \E raised \in BOOLEAN : conv_raised' = [conv_raised EXCEPT ![w] = raised]
    /\ UNCHANGED <<conv_item, sentinels_got, taken>>
    /\ UNCHANGED <<mainVars, dlVars, queueVars>>
    /\ UNCHANGED besidesPipe

\* finally: series_queue.task_done(), back to the head of the loop
ConvTaskDone(w) ==
    /\ conv_pc[w] = "task_done"
    /\ conv_pc' = [conv_pc EXCEPT ![w] = "get"]
    /\ conv_item' = [conv_item EXCEPT ![w] = 0]
    /\ conv_raised' = [conv_raised EXCEPT ![w] = FALSE]
    /\ unfinished_tasks' = unfinished_tasks - 1
    /\ UNCHANGED <<series_queue, sentinels_got, taken, processed>>
    /\ UNCHANGED <<mainVars, dlVars>>
    /\ UNCHANGED besidesPipe

(***************************************************************************)
(* Main thread of process_complete_workflow (parallel_pipeline, organize)  *)
(***************************************************************************)
\* mutant: the sentinels are enqueued without waiting for the downloader
DownloadJoinedNoWait == TRUE

\* download_thread.join() returns when _download_worker has ended
DownloadJoined == dl_pc = "finished"

\* mutant: the main thread does not wait for the converter threads
ConvertersJoinedNoWait == TRUE

\* for t in organizer_threads: t.join()
ConvertersJoined == \A w \in Converters : conv_pc[w] = "exit"

\* start the converter threads, then the downloader thread
MainStart ==
    /\ main_pc = "start"
    /\ main_pc' = "join_download"
    /\ conv_pc' = [w \in Converters |-> "get"]
    /\ dl_pc' = "query"
    /\ UNCHANGED <<sentinels_put, series_metadata, dl_i, current, files_received,
                   download_path, downloaded, conv_item, conv_raised,
                   sentinels_got, taken, processed>>
    /\ UNCHANGED queueVars
    /\ UNCHANGED besidesPipe

\* download_thread.join()
MainJoinDownload ==
    /\ main_pc = "join_download"
    /\ DownloadJoined
    /\ main_pc' = "put_sentinels"
    /\ UNCHANGED <<sentinels_put, dlVars, queueVars, convVars>>
    /\ UNCHANGED besidesPipe

\* mutant: one sentinel fewer than there are converter threads
SentinelsNeededOneShort == NumConverters - 1

\* len(organizer_threads): one sentinel per converter thread
SentinelsNeeded == NumConverters

\* for _ in range(len(organizer_threads)): series_queue.put(None)
MainPutSentinel ==
    /\ main_pc = "put_sentinels"
    /\ IF sentinels_put < SentinelsNeeded
       THEN /\ QueuePut(Sentinel)
            /\ sentinels_put' = sentinels_put + 1
            /\ UNCHANGED main_pc
       ELSE /\ main_pc' = "queue_join"
            /\ UNCHANGED <<sentinels_put, queueVars>>
    /\ UNCHANGED <<dlVars, convVars>>
    /\ UNCHANGED besidesPipe

\* series_queue.join()
MainQueueJoin ==
    /\ main_pc = "queue_join"
    /\ QueueJoined
    /\ main_pc' = "thread_join"
    /\ UNCHANGED <<sentinels_put, dlVars, queueVars, convVars>>
    /\ UNCHANGED besidesPipe

\* for t in organizer_threads: t.join(); then the check of the download result
MainThreadJoin ==
    /\ main_pc = "thread_join"
    /\ ConvertersJoined
    /\ main_pc' = IF download_path = "None" THEN "returned_None" ELSE "metadata"
    /\ UNCHANGED <<sentinels_put, dlVars, queueVars, convVars>>
    /\ UNCHANGED besidesPipe

\* the metadata task (_metadata_worker) is started and joined; return results
MainMetadata ==
    /\ main_pc = "metadata"
    /\ main_pc' = "returned"
    /\ UNCHANGED <<sentinels_put, dlVars, queueVars, convVars>>
    /\ UNCHANGED besidesPipe

PipeNext ==
    \/ MainStart
    \/ DlQuery
    \/ DlAssociate
    \/ DlWaitEnter
    \/ DlWaitPoll
    \/ DlSendMove
    \/ DlMoveDone
    \/ DlDeliver
    \/ \E w \in Converters : ConvGet(w)
    \/ \E w \in Converters : ConvProcess(w)
    \/ \E w \in Converters : ConvTaskDone(w)
    \/ MainJoinDownload
    \/ MainPutSentinel
    \/ MainQueueJoin
    \/ MainThreadJoin
    \/ MainMetadata

(***************************************************************************)
(* Conversion of one series by a converter thread:                         *)
(* convert_dicom_to_nifti / convert_to_npz -> convert_with_dcm2niix, then  *)
(* convert_with_python_libs when the tool-backed conversion failed.        *)
(***************************************************************************)
IdleConversion ==
    [pc |-> "idle", entry |-> "none", mode |-> "none", dicom_files |-> 0,
     idx |-> 0, runs |-> 0, returncode |-> -1, raised |-> FALSE,
     available |-> "none", file_output |-> FALSE, success_count |-> 0,
     has_output |-> FALSE, originals_deleted |-> FALSE,
     tool_result |-> "none", py_result |-> "none", result |-> "none",
     conversion_map |-> {}]

CvInit ==
    /\ dcm2niix_global_lock = 0
    /\ cv = [w \in Workers |-> IdleConversion]

\* what one run of the dcm2niix conversion command can do:
\*   ok              exit code 0, output written
\*   empty           exit code 0, no output written
\*   nonzero         non-zero exit code, no output written
\*   nonzero_output  non-zero exit code after output was written
\*   timeout         subprocess.run raises TimeoutExpired
ToolOutcomes == {"ok", "empty", "nonzero", "nonzero_output", "timeout"}
ExitCode(out) == IF out \in {"ok", "empty"} THEN 0 ELSE 1
WritesOutput(out) == out \in {"ok", "nonzero_output"}

\* the modality decides the mode: DR/MG/DX convert file by file
Modes == {"series", "individual"}

\* mutant: the lock is taken without waiting for its holder
CanAcquireAlways == TRUE

\* with dcm2niix_global_lock: blocks while another thread holds the lock
CanAcquire == dcm2niix_global_lock = 0

\* mutant: the retry loop gives up one attempt early
RetryLoopEndsEarly(a) == a + 1 >= MAX_ATTEMPTS - 1

\* for attempt in range(3): the loop ends after the attempt with index 2
RetryLoopEnds(a) == a + 1 >= MAX_ATTEMPTS

\* mutant: the fallback runs whatever the tool-backed conversion returned
NeedsFallbackAlways(r) == TRUE

\* if nifti_result and nifti_result.get('success'): return / else fall back
NeedsFallback(r) == r.tool_result # "success"

\* convert_with_dcm2niix, series mode: success needs exit code 0 and a NIfTI
\* file in the directory
SeriesToolSucceeded(r) == r.returncode = 0 /\ r.has_output

\* convert_with_dcm2niix, individual mode: the file counts when the exit code
\* is 0 and the output named for it exists
FileToolSucceeded(r) == r.returncode = 0 /\ r.file_output

Set(w, r) == cv' = [cv EXCEPT ![w] = r]

\* a converter calls an entry point, which calls convert_with_dcm2niix, which
\* starts `dcm2niix -h` (no lock is taken for this run)
CvStart(w) ==
    /\ cv[w].pc = "idle"
    /\ \E e \in {"nifti", "npz"} :
          Set(w, [cv[w] EXCEPT !.pc = "available_check", !.entry = e])
    /\ UNCHANGED dcm2niix_global_lock
    /\ UNCHANGED besidesCv

\* the `dcm2niix -h` run ends: CalledProcessError / FileNotFoundError return
\* {'success': False, 'error': 'dcm2niix not available'}
CvAvailable(w) ==
    /\ cv[w].pc = "available_check"
    /\ \/ Set(w, [cv[w] EXCEPT !.pc = "collect", !.available = "ok"])
       \/ Set(w, [cv[w] EXCEPT !.pc = "tool_returned", !.available = "missing",
                                 !.tool_result = "failure"])
    /\ UNCHANGED dcm2niix_global_lock
    /\ UNCHANGED besidesCv

\* list the .dcm files and read the modality; no files: return failure
CvCollect(w) ==
    /\ cv[w].pc = "collect"
    /\ \/ Set(w, [cv[w] EXCEPT !.pc = "tool_returned", !.mode = "empty",
                                 !.tool_result = "failure"])
       \/ \E n \in 1..NumFiles, m \in Modes :
             Set(w, [cv[w] EXCEPT !.pc = "acquire", !.mode = m, !.dicom_files = n,
                                   !.idx = IF m = "individual" THEN 1 ELSE 0])
    /\ UNCHANGED dcm2niix_global_lock
    /\ UNCHANGED besidesCv

\* with dcm2niix_global_lock: (enter)
CvAcquire(w) ==
    /\ cv[w].pc = "acquire"
    /\ CanAcquire
    /\ dcm2niix_global_lock' = w
    /\ Set(w, [cv[w] EXCEPT !.pc = "run"])
    /\ UNCHANGED besidesCv

\* result = subprocess.run(cmd, ...) ends and the with block is left.  A
\* TimeoutExpired leaves `result` as it was: in series mode it ends
\* convert_with_dcm2niix (outer except), in individual mode it ends the file.
CvRun(w) ==
    /\ cv[w].pc = "run"
    /\ dcm2niix_global_lock' = 0
    /\ \E out \in ToolOutcomes :
          IF out = "timeout"
          THEN IF cv[w].mode = "series"
               THEN Set(w, [cv[w] EXCEPT !.pc = "tool_returned", !.runs = @ + 1,
                                          !.raised = TRUE, !.tool_result = "failure"])
               ELSE Set(w, [cv[w] EXCEPT !.pc = "next_file", !.runs = @ + 1,
                                          !.raised = TRUE])
          ELSE Set(w, [cv[w] EXCEPT !.pc = "check", !.runs = @ + 1,
                                     !.returncode = ExitCode(out),
                                     !.has_output = @ \/ WritesOutput(out),
                                     !.file_output = @ \/ WritesOutput(out)])
    /\ UNCHANGED besidesCv

\* the loop variable `attempt` after run number r.runs
Attempt(r) == r.runs - 1

\* mutant: the exit code does not end the retry loop
BreaksLoopNever(r) == FALSE

\* if result.returncode == 0: break
BreaksLoop(r) == r.returncode = 0

\* if result.returncode == 0: break; if attempt < 2: (log and sleep)
CvCheck(w) ==
    /\ cv[w].pc = "check"
    /\ IF BreaksLoop(cv[w]) \/ RetryLoopEnds(Attempt(cv[w]))
       THEN Set(w, [cv[w] EXCEPT !.pc = "evaluate"])
       ELSE Set(w, [cv[w] EXCEPT !.pc = "backoff"])
    /\ UNCHANGED dcm2niix_global_lock
    /\ UNCHANGED besidesCv

\* time.sleep(0.5) ends, the next attempt begins
CvBackoff(w) ==
    /\ cv[w].pc = "backoff"
    /\ Set(w, [cv[w] EXCEPT !.pc = "acquire"])
    /\ UNCHANGED dcm2niix_global_lock
    /\ UNCHANGED besidesCv

\* after the retry loop.  Series mode: on success the .dcm files are removed
\* and success is returned, else failure.  Individual mode: count the file.
CvEvaluate(w) ==
    /\ cv[w].pc = "evaluate"
    /\ IF cv[w].mode = "series"
       THEN IF SeriesToolSucceeded(cv[w])
            THEN Set(w, [cv[w] EXCEPT !.pc = "tool_returned",
                                       !.originals_deleted = TRUE,
                                       !.tool_result = "success"])
            ELSE Set(w, [cv[w] EXCEPT !.pc = "tool_returned",
                                       !.tool_result = "failure"])
       ELSE IF FileToolSucceeded(cv[w])
            THEN Set(w, [cv[w] EXCEPT !.pc = "next_file", !.success_count = @ + 1])
            ELSE Set(w, [cv[w] EXCEPT !.pc = "next_file"])
    /\ UNCHANGED dcm2niix_global_lock
    /\ UNCHANGED besidesCv

\* individual mode: the next file, or after the last one: with at least one
\* file converted remove every .dcm file and return success, else failure
CvNextFile(w) ==
    /\ cv[w].pc = "next_file"
    /\ IF cv[w].idx < cv[w].dicom_files
       THEN Set(w, [cv[w] EXCEPT !.pc = "acquire", !.idx = @ + 1,
                                  !.runs = 0, !.returncode = -1, !.raised = FALSE,
                                  !.file_output = FALSE])
       ELSE IF cv[w].success_count > 0
            THEN Set(w, [cv[w] EXCEPT !.pc = "tool_returned",
                                       !.originals_deleted = TRUE,
                                       !.conversion_map = @ \cup {"nii"},
                                       !.tool_result = "success"])
            ELSE Set(w, [cv[w] EXCEPT !.pc = "tool_returned",
                                       !.tool_result = "failure"])
    /\ UNCHANGED dcm2niix_global_lock
    /\ UNCHANGED besidesCv

\* what the entry point keeps once convert_with_dcm2niix has returned: its
\* result and the series directory; the locals of the call are gone
AfterCall(r, p) ==
    [IdleConversion EXCEPT !.pc = p, !.entry = r.entry, !.mode = r.mode,
                           !.dicom_files = r.dicom_files,
                           !.has_output = r.has_output,
                           !.originals_deleted = r.originals_deleted,
                           !.conversion_map = r.conversion_map,
                           !.tool_result = r.tool_result]

\* the entry point looks at the result of convert_with_dcm2niix
CvAfterTool(w) ==
    /\ cv[w].pc = "tool_returned"
    /\ IF NeedsFallback(cv[w])
       THEN Set(w, AfterCall(cv[w], "python"))
       ELSE Set(w, AfterCall(cv[w], "returned"))
    /\ UNCHANGED dcm2niix_global_lock
    /\ UNCHANGED besidesCv

\* convert_with_python_libs on a directory that still holds its .dcm files
\* (files: how many, m: the mode the modality gives): no file, or nothing
\* converted: failure; else the output is written, in individual mode
\* _write_conversion_map records the outputs, the originals are removed and
\* success is returned
PythonLibs(w, files, m) ==
    \/ Set(w, [cv[w] EXCEPT !.pc = "returned", !.mode = m, !.dicom_files = files,
                             !.py_result = "failure"])
    \/ /\ files > 0
       /\ Set(w, [cv[w] EXCEPT !.pc = "returned", !.mode = m, !.dicom_files = files,
                                !.has_output = TRUE, !.originals_deleted = TRUE,
                                !.conversion_map =
                                    IF m = "individual" THEN @ \cup {"nii"} ELSE @,
                                !.py_result = "success"])

\* the fallback: convert_with_python_libs lists the directory itself
CvPython(w) ==
    /\ cv[w].pc = "python"
    /\ IF cv[w].mode = "none"
       THEN \/ PythonLibs(w, 0, "empty")
            \/ \E n \in 1..NumFiles, m \in Modes : PythonLibs(w, n, m)
       ELSE PythonLibs(w, cv[w].dicom_files, cv[w].mode)
    /\ UNCHANGED dcm2niix_global_lock
    /\ UNCHANGED besidesCv

\* a converter returned success to the entry point
ConverterSucceeded(r) == r.tool_result = "success" \/ r.py_result = "success"

\* what the entry point keeps when it returns: its result and the directory
AtReturn(r, res) ==
    [IdleConversion EXCEPT !.pc = "entry_returned", !.entry = r.entry,
                           !.has_output = r.has_output,
                           !.originals_deleted = r.originals_deleted,
                           !.conversion_map = r.conversion_map,
                           !.tool_result = r.tool_result,
                           !.py_result = r.py_result,
                           !.result = res]

\* the rest of the entry point once the converters are done.  Both converters
\* failed: failure is returned.  convert_dicom_to_nifti returns the
\* converter's result.  convert_to_npz calls normalize_and_save_npz on each
\* NIfTI output (nib.load, np.savez_compressed: either can raise); an
\* exception reaches `except Exception` and {'success': False} is returned.
\* Otherwise each NIfTI file is removed and a record the cache holds for a
\* NIfTI name is cloned under the NPZ name.
ClonedForNpz(map) == IF "nii" \in map THEN map \cup {"npz"} ELSE map

CvPost(w) ==
    /\ cv[w].pc = "returned"
    /\ IF ~ConverterSucceeded(cv[w])
       THEN Set(w, AtReturn(cv[w], "failure"))
       ELSE IF cv[w].entry = "nifti"
            THEN Set(w, AtReturn(cv[w], "success"))
            ELSE \/ Set(w, AtReturn([cv[w] EXCEPT !.conversion_map =
                                                     ClonedForNpz(@)],
                                    "success"))
                 \/ Set(w, AtReturn(cv[w], "failure"))
    /\ UNCHANGED dcm2niix_global_lock
    /\ UNCHANGED besidesCv

\* the entry point has returned; the converter takes its next series
CvReturn(w) ==
    /\ cv[w].pc = "entry_returned"
    /\ Set(w, IdleConversion)
    /\ UNCHANGED dcm2niix_global_lock
    /\ UNCHANGED besidesCv

CvNext ==
    \/ \E w \in Workers : CvStart(w)
    \/ \E w \in Workers : CvAvailable(w)
    \/ \E w \in Workers : CvCollect(w)
    \/ \E w \in Workers : CvAcquire(w)
    \/ \E w \in Workers : CvRun(w)
    \/ \E w \in Workers : CvCheck(w)
    \/ \E w \in Workers : CvBackoff(w)
    \/ \E w \in Workers : CvEvaluate(w)
    \/ \E w \in Workers : CvNextFile(w)
    \/ \E w \in Workers : CvAfterTool(w)
    \/ \E w \in Workers : CvPython(w)
    \/ \E w \in Workers : CvPost(w)
    \/ \E w \in Workers : CvReturn(w)

(***************************************************************************)
(* One study job: its caller (process_single_task of the web application,  *)
(* or main), process_complete_workflow, and inside it download_study with  *)
(* _query_series_metadata, the embedded C-STORE SCP and handle_store.      *)
(*                                                                         *)
(* task:                                                                   *)
(*   pc                position of the caller / workflow                   *)
(*   caller            "web" (process_single_task), "main", "none"         *)
(*   parallel_pipeline argument of process_complete_workflow               *)
(*   status            ProcessingTask.status ("none": no task object)      *)
(*   results           what process_complete_workflow returned: "none"     *)
(*                     (not yet), "None", "results"                        *)
(*   success           results['success']                                  *)
(*   keys              the optional keys of results that are set           *)
(*   auto_organize, auto_metadata  the options, once the workflow has read *)
(*                     them (TRUE until then)                              *)
(*   metadata_failed   extract_dicom_metadata gave no workbook             *)
(*   result_zip        create_result_zip has built the archive             *)
(* study:                                                                  *)
(*   pc                position inside download_study                      *)
(*   series_metadata   number of series _query_series_metadata returned    *)
(*   series            their SeriesNumber and SeriesDescription, in order  *)
(*   i                 series of the current loop iteration (from 1)       *)
(*   current_path      storage_state['current_path'] (0: '')               *)
(*   files_received    storage_state['files_received']                     *)
(*   query_assoc, assoc  the associations of the query and of the moves:   *)
(*                     "none", "refused", "established", "released"        *)
(*   query_released, released  calls of release() on each of them          *)
(*   server            the SCP: "none", "running", "shutdown"              *)
(*   exit              how the loop was left: "none", "normal", "abort"    *)
(*   callbacks         series on_series_downloaded was invoked for         *)
(*   ret               return value: "none" (not yet), "None", "path"      *)
(*   cause             why the call ends as it does                        *)
(*   bad_status        some C-MOVE ended with a failure status or with no  *)
(*                     response                                            *)
(*   cb_raised         some invocation of on_series_downloaded raised      *)
(***************************************************************************)
TaskIdle ==
    [pc |-> "idle", caller |-> "none", parallel_pipeline |-> FALSE,
     status |-> "none", results |-> "none", success |-> FALSE, keys |-> {},
     auto_organize |-> TRUE, auto_metadata |-> TRUE,
     metadata_failed |-> FALSE, result_zip |-> FALSE]

StudyIdle ==
    [pc |-> "idle", series_metadata |-> 0, series |-> <<>>, i |-> 0,
     current_path |-> 0,
     files_received |-> 0, query_assoc |-> "none", assoc |-> "none",
     query_released |-> 0, released |-> 0, server |-> "none", exit |-> "none",
     callbacks |-> <<>>, ret |-> "none", cause |-> "none",
     bad_status |-> FALSE, cb_raised |-> FALSE]

StudySeriesSet == 1..StudySeries

StudyInit ==
    /\ task = TaskIdle
    /\ study = StudyIdle
    /\ pacs_pending = [s \in StudySeriesSet |-> 0]
    /\ stored = {}
    /\ dirs = {}

\* the value download_study returns when the C-FIND matches no study
NotFoundResult == "None"

\* the name 'Unknown'
Unknown == <<"U", "n", "k", "n", "o", "w", "n">>

\* series_info of a series whose C-FIND response carries SeriesNumber k and a
\* SeriesDescription
Described(k) ==
    [SeriesNumber |-> <<ToString(k)>>, SeriesDescription |-> <<"a">>]

\* series_info of a series whose response carries neither attribute:
\* 'SeriesNumber': '0', 'SeriesDescription': 'Unknown'
Undescribed ==
    [SeriesNumber |-> <<"0">>, SeriesDescription |-> Unknown]

\* the lists of n series the C-FIND may give: all described, or none
SeriesFound(n) ==
    {[k \in 1..n |-> IF k <= d THEN Described(k) ELSE Undescribed] : d \in {0, n}}

\* mutant: storage_state['current_path'] is not advanced
CurrentPathStale(st) == st.current_path

\* storage_state['current_path'] = series_dir, the directory of series i
CurrentPath(st) == st.i

\* mutant: the path is returned whatever was received
ReturnValueAlwaysPath(received) == "path"

\* return output_path if storage_state['files_received'] > 0 else None
ReturnValue(received) == IF received > 0 THEN "path" ELSE "None"

\* mutant: an exception of the callback leaves the loop
CallbackGuardedNot == FALSE

\* try: on_series_downloaded(...) except Exception: (log)
CallbackGuarded == TRUE

\* mutant: the association is released on normal completion only
ReleasedOnAbortNot == FALSE

\* try: (loop) finally: assoc.release()
ReleasedOnAbort == TRUE

\* ProcessingTask.update_status(status)
UpdateStatus(t, st) == IF t.caller = "web" THEN [t EXCEPT !.status = st] ELSE t

\* the caller starts: process_single_task sets the task running and creates
\* its result directory; main calls the workflow with its defaults
TaskStart ==
    /\ task.pc = "idle"
    /\ \/ /\ task' = [TaskIdle EXCEPT !.pc = "task_query", !.caller = "web",
                                      !.parallel_pipeline = FALSE,
                                      !.status = "running"]
          /\ dirs' = dirs \cup {"base"}
       \/ /\ task' = [TaskIdle EXCEPT !.pc = "workflow", !.caller = "main",
                                      !.parallel_pipeline = TRUE]
          /\ dirs' = dirs
    /\ UNCHANGED <<study, pacs_pending, stored>>
    /\ UNCHANGED besidesStudy

\* process_single_task queries the PACS first and fails the task when the
\* accession is not found
TaskQuery ==
    /\ task.pc = "task_query"
    /\ \/ task' = [task EXCEPT !.pc = "workflow"]
       \/ task' = [task EXCEPT !.pc = "done", !.status = "failed"]
    /\ UNCHANGED <<study, pacs_pending, stored, dirs>>
    /\ UNCHANGED besidesStudy

\* process_complete_workflow: the output directory, with the parallel
\* pipeline the organized directory too, then download_study is called
WfStart ==
    /\ task.pc = "workflow"
    /\ dirs' = dirs \cup {"base"}
                    \cup (IF task.parallel_pipeline THEN {"organized"} ELSE {})
    /\ task' = [task EXCEPT !.pc = "download"]
    /\ study' = [StudyIdle EXCEPT !.pc = "query_associate"]
    /\ UNCHANGED <<pacs_pending, stored>>
    /\ UNCHANGED besidesStudy

\* _query_series_metadata: self.ae.associate(...)
QueryAssociate ==
    /\ study.pc = "query_associate"
    /\ \/ study' = [study EXCEPT !.pc = "query_find", !.query_assoc = "established"]
       \/ study' = [study EXCEPT !.pc = "queried", !.query_assoc = "refused",
                                 !.cause = "query_refused"]
       \/ study' = [study EXCEPT !.pc = "queried", !.cause = "query_exception"]
    /\ UNCHANGED <<task, pacs_pending, stored, dirs>>
    /\ UNCHANGED besidesStudy

\* the C-FINDs for the study and its series; an exception on the way keeps
\* what was collected
QueryFind ==
    /\ study.pc = "query_find"
    /\ \E n \in 0..StudySeries, exc \in BOOLEAN :
        \E found \in SeriesFound(n) :
          study' = [study EXCEPT !.pc = "query_release", !.series_metadata = n,
                                 !.series = found,
                                 !.cause = IF n > 0 THEN "none"
                                           ELSE IF exc THEN "query_exception"
                                           ELSE "not_found"]
    /\ UNCHANGED <<task, pacs_pending, stored, dirs>>
    /\ UNCHANGED besidesStudy

\* finally: assoc.release()
QueryRelease ==
    /\ study.pc = "query_release"
    /\ study' = [study EXCEPT !.pc = "queried", !.query_assoc = "released",
                              !.query_released = @ + 1]
    /\ UNCHANGED <<task, pacs_pending, stored, dirs>>
    /\ UNCHANGED besidesStudy

\* if not series_metadata: return None; else the study directory is created
\* and the C-STORE SCP is started
StudyAfterQuery ==
    /\ study.pc = "queried"
    /\ IF study.series_metadata = 0
       THEN /\ study' = [study EXCEPT !.pc = "returned", !.ret = NotFoundResult]
            /\ dirs' = dirs
       ELSE /\ study' = [study EXCEPT !.pc = "associate", !.server = "running"]
            /\ dirs' = dirs \cup {"study_root"}
    /\ UNCHANGED <<task, pacs_pending, stored>>
    /\ UNCHANGED besidesStudy

\* assoc = self.ae.associate(...) for the moves: established, refused
\* (return None), or an exception (except: return None)
MoveAssociate ==
    /\ study.pc = "associate"
    /\ \/ study' = [study EXCEPT !.pc = "loop", !.assoc = "established", !.i = 1]
       \/ study' = [study EXCEPT !.pc = "shutdown", !.assoc = "refused",
                                 !.cause = "move_refused"]
       \/ study' = [study EXCEPT !.pc = "shutdown", !.cause = "move_exception"]
    /\ UNCHANGED <<task, pacs_pending, stored, dirs>>
    /\ UNCHANGED besidesStudy

\* for i, series in enumerate(series_metadata): current_path = series_dir
LoopHead ==
    /\ study.pc = "loop"
    /\ IF study.i > study.series_metadata
       THEN study' = [study EXCEPT !.pc = "release", !.exit = "normal"]
       ELSE study' = [study EXCEPT !.pc = "send_move",
                                   !.current_path = CurrentPath(study)]
    /\ UNCHANGED <<task, pacs_pending, stored, dirs>>
    /\ UNCHANGED besidesStudy

\* the loop body is left by an exception: finally release, except return None
Abort(st) ==
    [st EXCEPT !.pc = IF ReleasedOnAbort THEN "release" ELSE "shutdown",
               !.exit = "abort", !.cause = "move_exception"]

\* the progress callback (the web task sets its status to running), then
\* assoc.send_c_move(...): the PACS starts sending the instances of the
\* series, or the call raises
SendMove ==
    /\ study.pc = "send_move"
    /\ task' = UpdateStatus(task, "running")
    /\ \/ \E n \in 0..MaxInstances :
             /\ pacs_pending' = [pacs_pending EXCEPT ![study.i] = n]
             /\ study' = [study EXCEPT !.pc = "responses"]
       \/ /\ study' = Abort(study)
          /\ pacs_pending' = pacs_pending
    /\ UNCHANGED <<stored, dirs>>
    /\ UNCHANGED besidesStudy

\* for (status, identifier) in responses: ends.  A final success status comes
\* after the last sub-operation; with a failure status the PACS has given up
\* the rest; with no response (timeout, network) nothing is known about the
\* sub-operations.  The iteration can raise.
MoveResponses ==
    /\ study.pc = "responses"
    /\ \/ /\ pacs_pending[study.i] = 0
          /\ study' = [study EXCEPT !.pc = "sleep"]
          /\ pacs_pending' = pacs_pending
       \/ /\ study' = [study EXCEPT !.pc = "sleep", !.bad_status = TRUE]
          /\ pacs_pending' = [pacs_pending EXCEPT ![study.i] = 0]
       \/ /\ study' = [study EXCEPT !.pc = "sleep", !.bad_status = TRUE]
          /\ pacs_pending' = pacs_pending
       \/ /\ study' = Abort(study)
          /\ pacs_pending' = pacs_pending
    /\ UNCHANGED <<task, stored, dirs>>
    /\ UNCHANGED besidesStudy

\* time.sleep(0.5) ends
Sleep ==
    /\ study.pc = "sleep"
    /\ study' = [study EXCEPT !.pc = "callback"]
    /\ UNCHANGED <<task, pacs_pending, stored, dirs>>
    /\ UNCHANGED besidesStudy

\* on_series_downloaded(series_dir, series) is invoked and returns or raises
Callback ==
    /\ study.pc = "callback"
    /\ \E r \in BOOLEAN :
          LET called == [study EXCEPT !.callbacks = Append(@, study.i),
                                      !.cb_raised = @ \/ r]
          IN  IF r /\ ~CallbackGuarded
              THEN study' = Abort(called)
              ELSE study' = [called EXCEPT !.pc = "loop", !.i = @ + 1]
    /\ UNCHANGED <<task, pacs_pending, stored, dirs>>
    /\ UNCHANGED besidesStudy

\* finally: assoc.release()
Release ==
    /\ study.pc = "release"
    /\ study' = [study EXCEPT !.pc = "shutdown", !.assoc = "released",
                              !.released = @ + 1]
    /\ UNCHANGED <<task, pacs_pending, stored, dirs>>
    /\ UNCHANGED besidesStudy

\* finally: server.shutdown()
Shutdown ==
    /\ study.pc = "shutdown"
    /\ study' = [study EXCEPT !.pc = "return", !.server = "shutdown"]
    /\ UNCHANGED <<task, pacs_pending, stored, dirs>>
    /\ UNCHANGED besidesStudy

\* the return statement the exit path leads to
Return ==
    /\ study.pc = "return"
    /\ IF study.exit = "normal"
       THEN study' = [study EXCEPT !.pc = "returned",
                         !.ret = ReturnValue(study.files_received),
                         !.cause = IF study.files_received > 0 THEN "ok"
                                   ELSE "no_files"]
       ELSE study' = [study EXCEPT !.pc = "returned", !.ret = "None"]
    /\ UNCHANGED <<task, pacs_pending, stored, dirs>>
    /\ UNCHANGED besidesStudy

\* the PACS sends one instance of series s to the SCP and handle_store runs:
\* the file is saved under storage_state['current_path'] and counted, or the
\* handler fails (0xA700)
HandleStore ==
    /\ study.server = "running"
    /\ \E s \in StudySeriesSet :
          /\ pacs_pending[s] > 0
          /\ pacs_pending' = [pacs_pending EXCEPT ![s] = @ - 1]
          /\ \/ /\ stored' = stored \cup {<<s, study.current_path>>}
                /\ study' = [study EXCEPT !.files_received = @ + 1]
             \/ UNCHANGED <<stored, study>>
    /\ UNCHANGED <<task, dirs>>
    /\ UNCHANGED besidesStudy

\* download_study has returned to process_complete_workflow: None ends the
\* workflow with None
WfAfterDownload ==
    /\ task.pc = "download"
    /\ study.pc = "returned"
    /\ IF study.ret = "None"
       THEN task' = [task EXCEPT !.pc = "wf_returned", !.results = "None"]
       ELSE task' = [task EXCEPT !.pc = "organize"]
    /\ UNCHANGED <<study, pacs_pending, stored, dirs>>
    /\ UNCHANGED besidesStudy

\* the values an option of the workflow may have: process_single_task passes
\* what the request gave (default True), main() passes nothing
AutoOptions(t) == IF t.caller = "web" THEN BOOLEAN ELSE {TRUE}

\* mutant: success is reported whatever extract_dicom_metadata returned
ReportsSuccessAlways(excel_file) == TRUE

\* if excel_file: results['excel_file'] = excel_file; results['success'] = True
ReportsSuccess(excel_file) == excel_file

\* step 2, `if auto_organize:`: with the parallel pipeline the organized
\* directory is there; else organize_dicom_files makes it, or fails and the
\* results are returned
WfOrganize ==
    /\ task.pc = "organize"
    /\ \E ao \in AutoOptions(task) :
          IF ~ao
          THEN /\ task' = [task EXCEPT !.pc = "wf_returned", !.results = "results",
                                       !.auto_organize = FALSE]
               /\ dirs' = dirs
          ELSE IF task.parallel_pipeline
          THEN /\ task' = [task EXCEPT !.pc = "metadata",
                                       !.keys = {"organized_dir", "series_info"}]
               /\ dirs' = dirs
          ELSE \/ /\ task' = [task EXCEPT !.pc = "metadata",
                                          !.keys = {"organized_dir", "series_info"}]
                  /\ dirs' = dirs \cup {"organized"}
               \/ /\ task' = [task EXCEPT !.pc = "wf_returned",
                                          !.results = "results"]
                  /\ dirs' = dirs
    /\ UNCHANGED <<study, pacs_pending, stored>>
    /\ UNCHANGED besidesStudy

\* step 3, `if auto_metadata:`: extract_dicom_metadata writes the workbook
\* (excel_file is set and success becomes True) or gives none
WfMetadata ==
    /\ task.pc = "metadata"
    /\ \E am \in AutoOptions(task) :
          IF ~am
          THEN task' = [task EXCEPT !.pc = "wf_returned", !.results = "results",
                                    !.auto_metadata = FALSE]
          ELSE \E excel_file \in BOOLEAN :
                  task' = [task EXCEPT
                              !.pc = "wf_returned", !.results = "results",
                              !.keys = IF excel_file THEN @ \cup {"excel_file"}
                                       ELSE @,
                              !.success = ReportsSuccess(excel_file),
                              !.metadata_failed = ~excel_file]
    /\ UNCHANGED <<study, pacs_pending, stored, dirs>>
    /\ UNCHANGED besidesStudy

\* process_single_task looks at the results: with results['success'] the zip
\* is built from the organized directory and the task completes (a failing
\* create_result_zip fails the task), else the task fails
TaskFinish ==
    /\ task.pc = "wf_returned"
    /\ IF task.caller = "web"
       THEN IF task.results = "results" /\ task.success
            THEN \/ task' = [task EXCEPT !.pc = "done", !.result_zip = TRUE,
                                         !.status = "completed"]
                 \/ task' = [task EXCEPT !.pc = "done", !.status = "failed"]
            ELSE task' = [task EXCEPT !.pc = "done", !.status = "failed"]
       ELSE task' = [task EXCEPT !.pc = "done"]
    /\ UNCHANGED <<study, pacs_pending, stored, dirs>>
    /\ UNCHANGED besidesStudy

\* POST /api/task/<task_id>/cancel
CancelTask ==
    /\ task.caller = "web"
    /\ task.status \notin {"completed", "failed", "cancelled"}
    /\ task' = [task EXCEPT !.status = "cancelled"]
    /\ UNCHANGED <<study, pacs_pending, stored, dirs>>
    /\ UNCHANGED besidesStudy

StudyNext ==
    \/ TaskStart
    \/ TaskQuery
    \/ WfStart
    \/ QueryAssociate
    \/ QueryFind
    \/ QueryRelease
    \/ StudyAfterQuery
    \/ MoveAssociate
    \/ LoopHead
    \/ SendMove
    \/ MoveResponses
    \/ Sleep
    \/ Callback
    \/ Release
    \/ Shutdown
    \/ Return
    \/ HandleStore
    \/ WfAfterDownload
    \/ WfOrganize
    \/ WfMetadata
    \/ TaskFinish
    \/ CancelTask

(***************************************************************************)
(* Folder-name sanitization: DICOMDownloadClient._sanitize_folder_name of  *)
(* src/client/unified.py ("unified") and of dicom_client_unified.py        *)
(* ("legacy").  A name is a sequence of characters: "a" an ordinary        *)
(* character, "/" one of the characters < > " / \ | ? * that both versions  *)
(* replace, ":" the colon, " " white space, "." and "_".                   *)
(***************************************************************************)
Chars == {"a", "/", ":", " ", ".", "_"}
\* the character class [<>"/\\|?*] of unified.py
Illegal == {"/"}
\* the character class [<>:"/\\|?*] of dicom_client_unified.py
IllegalLegacy == {"/", ":"}
Space == {" "}

\* k copies of an ordinary character
Pad(k) == [j \in 1..k |-> "a"]

\* the tails: every sequence over Chars of length 0..SanTail
Tails == UNION {[1..n -> Chars] : n \in 0..SanTail}

\* lengths of the ordinary prefix: none, and two that bring the name to the
\* length limit
PadLens == {0, MAX_NAME_LEN - 2, MAX_NAME_LEN - 1}

RECURSIVE DropWhile(_, _)
\* s without its longest prefix of characters of set
DropWhile(s, set) ==
    IF s # <<>> /\ Head(s) \in set THEN DropWhile(Tail(s), set) ELSE s

RECURSIVE DropWhileRight(_, _)
\* s without its longest suffix of characters of set
DropWhileRight(s, set) ==
    IF s # <<>> /\ s[Len(s)] \in set
    THEN DropWhileRight(SubSeq(s, 1, Len(s) - 1), set)
    ELSE s

\* str.strip(chars)
Strip(s, set) == DropWhileRight(DropWhile(s, set), set)

\* re.sub(r'[<>"/\\|?*]', '_', name)
ReplaceIllegal(s) == [k \in 1..Len(s) |-> IF s[k] \in Illegal THEN "_" ELSE s[k]]

\* re.sub(r'[<>:"/\\|?*]', '_', str(name))
ReplaceIllegalLegacy(s) ==
    [k \in 1..Len(s) |-> IF s[k] \in IllegalLegacy THEN "_" ELSE s[k]]

RECURSIVE SubDotSpace(_)
\* re.sub(r'\.\s+', '_', name)
SubDotSpace(s) ==
    IF s = <<>> THEN <<>>
    ELSE IF Head(s) = "." /\ Len(s) >= 2 /\ s[2] \in Space
         THEN <<"_">> \o SubDotSpace(DropWhile(Tail(s), Space))
         ELSE <<Head(s)>> \o SubDotSpace(Tail(s))

RECURSIVE SubSpaces(_)
\* re.sub(r'\s+', '_', name)
SubSpaces(s) ==
    IF s = <<>> THEN <<>>
    ELSE IF Head(s) \in Space
         THEN <<"_">> \o SubSpaces(DropWhile(Tail(s), Space))
         ELSE <<Head(s)>> \o SubSpaces(Tail(s))

RECURSIVE SubDots(_)
\* re.sub(r'\.+', '.', name)
SubDots(s) ==
    IF s = <<>> THEN <<>>
    ELSE IF Head(s) = "."
         THEN <<".">> \o SubDots(DropWhile(Tail(s), {"."}))
         ELSE <<Head(s)>> \o SubDots(Tail(s))

\* if len(name) > 50: name = name[:50]
Truncate(s) == IF Len(s) > MAX_NAME_LEN THEN SubSeq(s, 1, MAX_NAME_LEN) ELSE s

\* return name if name else "Unknown"
OrUnknown(s) == IF s = <<>> THEN Unknown ELSE s

\* src/client/unified.py
SanitizeUnified(name) ==
    IF name = <<>> THEN Unknown
    ELSE OrUnknown(Strip(Truncate(Strip(SubDots(SubSpaces(SubDotSpace(
             ReplaceIllegal(name)))), {".", " ", "_"})), {"."}))

\* f"{series_num:0>3}"
ZeroPad3(num) ==
    IF Len(num) >= 3 THEN num ELSE [j \in 1..(3 - Len(num)) |-> "0"] \o num

\* os.path.join(output_path,
\*     f"{series_num:0>3}_{self._sanitize_folder_name(series_desc)}"),
\* relative to output_path
series_dir(meta) ==
    ZeroPad3(meta.SeriesNumber) \o <<"_">>
        \o SanitizeUnified(meta.SeriesDescription)

\* dicom_client_unified.py
SanitizeLegacy(name) ==
    IF name = <<>> THEN Unknown
    ELSE OrUnknown(Truncate(Strip(ReplaceIllegalLegacy(name), Space)))

_sanitize_folder_name(version, name) ==
    IF version = "unified" THEN SanitizeUnified(name) ELSE SanitizeLegacy(name)

\* no sanitization is running
SanIdle ==
    /\ san_pc = "idle"
    /\ san_version = "unified"
    /\ san_name = <<>>
    /\ san_once = <<>>
    /\ san_twice = <<>>

\* the inputs: an ordinary prefix followed by a tail
SanInit ==
    /\ san_pc = "input"
    /\ san_version \in {"unified", "legacy"}
    /\ \E k \in PadLens, t \in Tails : san_name = Pad(k) \o t
    /\ san_once = <<>>
    /\ san_twice = <<>>

\* once = _sanitize_folder_name(name)
SanFirst ==
    /\ san_pc = "input"
    /\ san_once' = _sanitize_folder_name(san_version, san_name)
    /\ san_pc' = "once"
    /\ UNCHANGED <<san_version, san_name, san_twice>>
    /\ UNCHANGED besidesSan

\* twice = _sanitize_folder_name(once)
SanSecond ==
    /\ san_pc = "once"
    /\ san_twice' = _sanitize_folder_name(san_version, san_once)
    /\ san_pc' = "twice"
    /\ UNCHANGED <<san_version, san_name, san_once>>
    /\ UNCHANGED besidesSan

SanNext ==
    \/ SanFirst
    \/ SanSecond

(***************************************************************************)
(* MR_clean.get_orientation.  The components of ImageOrientationPatient    *)
(* are rationals; the model writes them in halves (2 is 1.0, 1 is 0.5), so *)
(* that the cross product is in quarters and both sides of the oblique     *)
(* test carry the same factor.                                             *)
(***************************************************************************)
Abs(x) == IF x < 0 THEN -x ELSE x

\* np.cross(row_vec, col_vec)
Cross(r, c) ==
    << r[2] * c[3] - r[3] * c[2],
       r[3] * c[1] - r[1] * c[3],
       r[1] * c[2] - r[2] * c[1] >>

\* np.max(np.abs(normal))
MaxAbs(n) ==
    LET a == Abs(n[1])
        b == Abs(n[2])
        c == Abs(n[3])
        ab == IF a >= b THEN a ELSE b
    IN  IF ab >= c THEN ab ELSE c

\* np.sum(normal**2)
SumSquares(n) == n[1] * n[1] + n[2] * n[2] + n[3] * n[3]

\* np.argmax(np.abs(normal)): the first index holding the maximum
ArgMaxAbs(n) ==
    CHOOSE i \in 1..3 :
        /\ Abs(n[i]) = MaxAbs(n)
        /\ \A j \in 1..(i - 1) : Abs(n[j]) # MaxAbs(n)

\* np.max(np.abs(normal))**2 < oblique_ratio * np.sum(normal**2)
IsOblique(n) ==
    RATIO_DEN * MaxAbs(n) * MaxAbs(n) < RATIO_NUM * SumSquares(n)

\* main_axis 0 -> SAG, 1 -> COR, 2 -> AX
AxisLabelSwapped(i) == IF i = 1 THEN "COR" ELSE IF i = 2 THEN "SAG" ELSE "AX"
AxisLabel(i) == IF i = 1 THEN "SAG" ELSE IF i = 2 THEN "COR" ELSE "AX"

\* the fallback: the orientation whose keyword the protocol name holds
OrientationFallback(kw) == IF kw = "NONE" THEN "UNKNOWN" ELSE kw

get_orientation(iop, kw) ==
    IF Len(iop) = 6
    THEN LET normal == Cross(SubSeq(iop, 1, 3), SubSeq(iop, 4, 6))
         IN  IF IsOblique(normal) THEN "OBL"
             ELSE AxisLabel(ArgMaxAbs(normal))
    ELSE OrientationFallback(kw)

OrComps == (0 - OrientComp)..OrientComp
\* lists of six numbers, and what does not parse to one
OrIops == [1..6 -> OrComps] \cup {<<>>, <<2, 0, 0>>}

OrIdle ==
    /\ or_pc = "idle"
    /\ or_iop = <<>>
    /\ or_kw = "NONE"
    /\ or_result = "none"

OrInit ==
    /\ or_pc = "input"
    /\ or_iop \in OrIops
    /\ or_kw \in IF Len(or_iop) = 6 THEN {"NONE"}
                ELSE {"NONE", "AX", "SAG", "COR"}
    /\ or_result = "none"

\* result = get_orientation(row, cfg)
OrCall ==
    /\ or_pc = "input"
    /\ or_result' = get_orientation(or_iop, or_kw)
    /\ or_pc' = "done"
    /\ UNCHANGED <<or_iop, or_kw>>
    /\ UNCHANGED besidesOr

OrNext == OrCall

(***************************************************************************)
(* MR_clean.classify_sequence and get_subtype_suffix, with the defaults of *)
(* the keyword lists.  A protocol name is the set of the keyword-bearing   *)
(* words it is made of; a keyword is in the name when it is a substring of *)
(* one of the words.  The numeric columns are read through the comparisons *)
(* the rules make of them.                                                 *)
(*   name               words of protocolName_lower                        *)
(*   SeriesDescription  words of the column, or NaN (an empty cell)        *)
(*   ImageType          the parts of ImageType split at the backslash      *)
(*   refinedImageType   "LOCALIZER" or "ORIGINAL"                          *)
(*   hasMotionCorrection the column set by extract_atomic_features         *)
(*   standardDimension  "2D" or "3D"                                       *)
(*   b_value            "NaN", or "800" (above dwi_b_value_min)            *)
(*   ScanningSequence   "", "ep", "gr" or "se"                             *)
(*   SequenceVariant    "", "ss" or "sp"                                   *)
(*   EchoTrainLength    "NaN", "8" (above 1) or "256" (above               *)
(*                      single_shot_etl_min)                               *)
(*   InversionTime      "NaN", "flair" (at least flair_ti_min) or "stir"   *)
(*                      (between stir_ti_min and stir_ti_max)              *)
(*   contrast           the first TR/TE test of rule B3b that holds: "t2", *)
(*                      "t1", "pd" or "none"                               *)
(***************************************************************************)
Words ==
    {"localizer", "t1_map", "t2_map", "adc", "fa_map", "sub", "mra", "swi",
     "pwi", "mrs", "dti", "bold", "haste", "t2", "tse_dark_fluid", "t1", "pd",
     "flair", "stir", "dwi", "tse", "se", "mpr_iso", "blade", "water", "fat",
     "t2_star_echo_2"}

\* the words that hold keyword k
WordsWith(k) ==
    CASE k = "t2" -> {"t2", "t2_map", "t2_star_echo_2"}
      [] k = "t1" -> {"t1", "t1_map"}
      [] k = "tse" -> {"tse", "tse_dark_fluid"}
      [] k = "se" -> {"se", "tse", "tse_dark_fluid"}
      [] k = "mpr" -> {"mpr_iso"}
      [] k = "iso" -> {"mpr_iso"}
      [] k = "t2_star_echo" -> {"t2_star_echo_2"}
      [] OTHER -> {k}

\* any(k in text for k in keywords)
HasAny(text, keywords) == \E k \in keywords : text \cap WordsWith(k) # {}
\* all(k in text for k in keywords)
HasAll(text, keywords) == \A k \in keywords : text \cap WordsWith(k) # {}

\* an empty cell of the SeriesDescription column
NaN == {"NaN"}
\* what an exception leaves in place of the label
Raised == <<"TypeError">>

\* rule A, lines 324-350: the first entry whose keywords match
RuleA(row) ==
    IF \/ HasAny(row.name, {"localizer", "survey", "scout"})
       \/ row.refinedImageType = "LOCALIZER" THEN "LOCALIZER"
    ELSE IF HasAny(row.name, {"t1_map", "t1map"}) THEN "T1_MAP"
    ELSE IF HasAny(row.name, {"t2_map", "t2map"}) THEN "T2_MAP"
    ELSE IF HasAny(row.name, {"adc"}) THEN "ADC"
    ELSE IF HasAny(row.name, {"fa_map"}) THEN "FA_MAP"
    ELSE IF HasAny(row.name, {"sub", "subtract"}) THEN "SUBTRACTION"
    ELSE IF HasAny(row.name, {"mra", "mrv", "tof"}) THEN "MRA"
    ELSE IF HasAny(row.name, {"swi", "swan"}) THEN "SWI"
    ELSE IF HasAny(row.name, {"pwi", "perf", "dsc"}) THEN "PWI"
    ELSE IF HasAny(row.name, {"mrs", "svs", "csi", "spectro"}) THEN "MRS"
    ELSE IF HasAny(row.SeriesDescription, {"resp"}) THEN "BREATH MOVEMENT"
    ELSE IF HasAny(row.SeriesDescription, {"mip"}) THEN "MIP"
    ELSE "UNKNOWN"

\* if base_class == 'UNKNOWN': rule B runs only when rule A has not matched
RuleBAppliesAlways(base_class) == TRUE
RuleBApplies(base_class) == base_class = "UNKNOWN"

\* rule B3a, lines 385-400
SeqFamily(row) ==
    IF row.ScanningSequence = "gr"
    THEN IF row.SequenceVariant = "ss" THEN "GRE_STEADY_STATE"
         ELSE IF row.SequenceVariant = "sp" THEN "GRE_SPOILED"
         ELSE "GRE"
    ELSE IF row.ScanningSequence = "se"
    THEN IF HasAny(row.name, {"haste", "ssfse"}) \/ row.EchoTrainLength = "256"
         THEN "SE_SingleShot"
         ELSE IF row.EchoTrainLength = "8" THEN "TSE"
         ELSE "SE"
    ELSE "UNKNOWN"

\* rule B, lines 352-411: <<base_class, seq_family>>
RuleB(row) ==
    IF row.b_value = "800"
    THEN <<IF HasAny(row.name, {"dti"}) THEN "DTI" ELSE "DWI", "UNKNOWN">>
    ELSE IF row.ScanningSequence = "ep" /\ HasAny(row.name, {"fmri", "bold"})
    THEN <<"fMRI_BOLD", "UNKNOWN">>
    ELSE IF row.InversionTime = "flair" THEN <<"T2_FLAIR", "UNKNOWN">>
    ELSE IF row.InversionTime = "stir" THEN <<"T2_STIR", "UNKNOWN">>
    ELSE LET seq_family == SeqFamily(row)
         IN  IF seq_family = "SE_SingleShot"
             THEN <<"T2_SE_SingleShot", seq_family>>
             ELSE IF seq_family = "UNKNOWN" THEN <<"UNKNOWN", seq_family>>
             ELSE IF row.contrast = "t2" THEN <<"T2_" \o seq_family, seq_family>>
             ELSE IF row.contrast = "t1" THEN <<"T1_" \o seq_family, seq_family>>
             ELSE IF row.contrast = "pd" /\ HasAny(row.name, {"pd"})
             THEN <<"PD_" \o seq_family, seq_family>>
             ELSE <<"UNKNOWN", seq_family>>

\* rule C, lines 416-426: the t2 block
RuleCT2(row, seq_family) ==
    IF HasAny(row.name, {"t2"})
    THEN IF seq_family = "UNKNOWN"
         THEN IF HasAny(row.name, {"tse", "fse"}) THEN "T2_TSE"
              ELSE IF HasAny(row.name, {"se"}) THEN "T2_SE"
              ELSE "T2_NAME_BASED"
         ELSE "T2_" \o seq_family
    ELSE "UNKNOWN"

\* rule C, lines 428-453: the second if/elif chain, which starts from the
\* label the t2 block has left and overwrites it when one of its branches runs
RuleC(row, seq_family) ==
    IF HasAny(row.name, {"tse_dark_fluid"}) THEN "T2_FLAIR"
    ELSE IF HasAny(row.name, {"t1"})
    THEN IF seq_family = "UNKNOWN"
         THEN IF HasAny(row.name, {"tse", "fse"}) THEN "T1_TSE"
              ELSE IF HasAny(row.name, {"se"}) THEN "T1_SE"
              ELSE IF HasAll(row.name, {"mpr", "iso"})
                      /\ row.standardDimension = "3D" THEN "T1_GRE_FLASH3D"
              ELSE "T1_NAME_BASED"
         ELSE "T1_" \o seq_family
    ELSE IF HasAny(row.name, {"pd"}) THEN "PD_" \o seq_family
    ELSE IF HasAny(row.name, {"flair"}) THEN "T2_FLAIR"
    ELSE IF HasAny(row.name, {"stir"}) THEN "T2_STIR"
    ELSE IF HasAny(row.name, {"dwi", "diff"}) THEN "DWI"
    ELSE RuleCT2(row, seq_family)

\* base_class at line 455
BaseClass(row) ==
    LET a == RuleA(row)
        b == IF RuleBApplies(a) THEN RuleB(row) ELSE <<a, "UNKNOWN">>
    IN  IF b[1] = "UNKNOWN" THEN RuleC(row, b[2]) ELSE b[1]

\* desc of get_subtype_suffix: the protocol name and the SeriesDescription
SuffixDesc(row) == row.name \cup row.SeriesDescription

\* get_subtype_suffix, lines 252-274 (the lower-cased desc never holds the
\* upper-case tokens 'WATER', ' W ', ...)
SubtypeSuffixFatFirst(row) ==
    IF "FAT" \in row.ImageType \/ HasAny(SuffixDesc(row), {"fat"})
    THEN <<"_FAT">>
    ELSE IF "WATER" \in row.ImageType \/ HasAny(SuffixDesc(row), {"water"})
    THEN <<"_WATER">>
    ELSE <<>>
SubtypeSuffix(row) ==
    IF "WATER" \in row.ImageType \/ HasAny(SuffixDesc(row), {"water"})
    THEN <<"_WATER">>
    ELSE IF "FAT" \in row.ImageType \/ HasAny(SuffixDesc(row), {"fat"})
    THEN <<"_FAT">>
    ELSE IF \/ "INPHASE" \in row.ImageType
            \/ HasAny(SuffixDesc(row), {"in_phase", "inphase"})
    THEN <<"_INPHASE">>
    ELSE IF \/ "OUTPHASE" \in row.ImageType
            \/ HasAny(SuffixDesc(row), {"out_phase", "outphase"})
    THEN <<"_OUTPHASE">>
    ELSE IF HasAny(SuffixDesc(row), {"t2_star_echo"}) THEN <<"_ECHO2">>
    ELSE <<>>

\* lines 461-465
MotionSuffix(row) ==
    IF HasAny(row.name, {"blade", "propeller"}) \/ row.hasMotionCorrection
    THEN <<"_MC">>
    ELSE <<>>

\* lines 455-468: str + NaN at lines 239-240 raises TypeError
PostProcess(row, base_class) ==
    IF base_class = "UNKNOWN" THEN <<"UNKNOWN">>
    ELSE IF row.SeriesDescription = NaN THEN Raised
    ELSE <<base_class>> \o SubtypeSuffix(row) \o MotionSuffix(row)

\* the row of a series none of whose tags is usable
Blank ==
    [name |-> {}, SeriesDescription |-> {}, ImageType |-> {},
     refinedImageType |-> "ORIGINAL", hasMotionCorrection |-> FALSE,
     standardDimension |-> "2D", b_value |-> "NaN", ScanningSequence |-> "",
     SequenceVariant |-> "", EchoTrainLength |-> "NaN",
     InversionTime |-> "NaN", contrast |-> "none"]

\* the physics of the rows
Physics ==
    { Blank,
      [Blank EXCEPT !.b_value = "800"],
      [Blank EXCEPT !.ScanningSequence = "ep"],
      [Blank EXCEPT !.InversionTime = "flair"],
      [Blank EXCEPT !.InversionTime = "stir"],
      [Blank EXCEPT !.ScanningSequence = "gr"],
      [Blank EXCEPT !.ScanningSequence = "gr", !.SequenceVariant = "ss",
                    !.contrast = "t2"],
      [Blank EXCEPT !.ScanningSequence = "gr", !.SequenceVariant = "sp",
                    !.contrast = "t1"],
      [Blank EXCEPT !.ScanningSequence = "se", !.contrast = "t2"],
      [Blank EXCEPT !.ScanningSequence = "se", !.EchoTrainLength = "8",
                    !.contrast = "pd"],
      [Blank EXCEPT !.ScanningSequence = "se", !.EchoTrainLength = "256"] }

\* the other columns: one of them set
Others ==
    { <<"SeriesDescription", {}>>, <<"SeriesDescription", NaN>>,
      <<"SeriesDescription", {"resp"}>>, <<"SeriesDescription", {"mip"}>>,
      <<"SeriesDescription", {"resp", "mip"}>>,
      <<"ImageType", {"WATER"}>>, <<"ImageType", {"FAT"}>>,
      <<"ImageType", {"INPHASE"}>>, <<"ImageType", {"OUTPHASE"}>>,
      <<"ImageType", {"FAT", "INPHASE"}>>,
      <<"refinedImageType", "LOCALIZER">>,
      <<"hasMotionCorrection", TRUE>>,
      <<"standardDimension", "3D">> }

\* the names of at most k words
RECURSIVE NamesUpTo(_)
NamesUpTo(k) ==
    IF k = 0 THEN {{}}
    ELSE LET shorter == NamesUpTo(k - 1)
         IN  shorter \cup {n \cup {w} : n \in shorter, w \in Words}

Names == NamesUpTo(MaxWords)

ClRows ==
    { [[p EXCEPT ![o[1]] = o[2]] EXCEPT !.name = n] :
          p \in Physics, o \in Others, n \in Names }

\* no classification is running
ClIdle ==
    /\ cl_pc = "idle"
    /\ cl_row = Blank
    /\ cl_base = "UNKNOWN"
    /\ cl_result = <<>>

ClInit ==
    /\ cl_pc = "input"
    /\ cl_row \in ClRows
    /\ cl_base = "UNKNOWN"
    /\ cl_result = <<>>

\* lines 293-453: the rules
ClClassify ==
    /\ cl_pc = "input"
    /\ cl_base' = BaseClass(cl_row)
    /\ cl_pc' = "classified"
    /\ UNCHANGED <<cl_row, cl_result>>
    /\ UNCHANGED besidesCl

\* lines 455-468: the suffixes and the return
ClPostProcess ==
    /\ cl_pc = "classified"
    /\ cl_result' = PostProcess(cl_row, cl_base)
    /\ cl_pc' = "done"
    /\ UNCHANGED <<cl_row, cl_base>>
    /\ UNCHANGED besidesCl

ClNext ==
    \/ ClClassify
    \/ ClPostProcess

(***************************************************************************)
(* MR_clean.process_mri_dataframe from stage 4 on: analyze_dynamic_series, *)
(* the assignment to isContrastEnhanced that follows it, and               *)
(* propagate_enhancement_status.  A row of the frame:                      *)
(*   StudyInstanceUID    1 or 2                                            *)
(*   fingerprint         the fingerprint columns joined (the geometry, the *)
(*                       sequence class and the timing parameters)         *)
(*   protocolName_lower, ContrastBolusAgent ("NaN": empty), sequenceClass  *)
(*   SeriesTime          0 (NaN after pd.to_numeric) or the clock time     *)
(*   dynamicGroup        0 (NaN) or the id of the dynamic group            *)
(*   dynamicPhase        "", "PRE", "POST_1", ..., "POST_PROPAGATED"       *)
(*   isContrastEnhanced                                                    *)
(***************************************************************************)
\* the series of the model: a dynamic acquisition, two T1 series of other
\* geometries with and without an agent, and a T2 series
SeriesKinds ==
    { [fingerprint |-> "ax_T1_GRE", protocolName_lower |-> "dyn_vibe",
       ContrastBolusAgent |-> "Gd", sequenceClass |-> "T1_GRE"],
      [fingerprint |-> "sag_T1_TSE", protocolName_lower |-> "t1_tse",
       ContrastBolusAgent |-> "Gd", sequenceClass |-> "T1_TSE"],
      [fingerprint |-> "cor_T1_TSE", protocolName_lower |-> "t1_tse",
       ContrastBolusAgent |-> "NaN", sequenceClass |-> "T1_TSE"],
      [fingerprint |-> "ax_T2_TSE", protocolName_lower |-> "t2_tse",
       ContrastBolusAgent |-> "no contrast", sequenceClass |-> "T2_TSE"] }

Studies == {1, 2}
\* SeriesTime after pd.to_numeric: NaN, 090000, 090200, 093000
Times == {0, 90000, 90200, 93000}

\* a row as stage 3 leaves it and lines 558-559 initialise it
NewRow(uid, kind, time) ==
    [StudyInstanceUID |-> uid, fingerprint |-> kind.fingerprint,
     protocolName_lower |-> kind.protocolName_lower,
     ContrastBolusAgent |-> kind.ContrastBolusAgent,
     sequenceClass |-> kind.sequenceClass, SeriesTime |-> time,
     dynamicGroup |-> 0, dynamicPhase |-> "", isContrastEnhanced |-> FALSE]

DfRows == {NewRow(s, k, t) : s \in Studies, k \in SeriesKinds, t \in Times}

\* the place of a row in the order in which the frame lists its rows: by
\* study, then by series, the latest first
KindOrder(fp) ==
    CASE fp = "ax_T1_GRE" -> 0
      [] fp = "sag_T1_TSE" -> 1
      [] fp = "cor_T1_TSE" -> 2
      [] OTHER -> 3
RowLeq(a, b) ==
    \/ a.StudyInstanceUID < b.StudyInstanceUID
    \/ /\ a.StudyInstanceUID = b.StudyInstanceUID
       /\ \/ KindOrder(a.fingerprint) < KindOrder(b.fingerprint)
          \/ /\ a.fingerprint = b.fingerprint
             /\ a.SeriesTime >= b.SeriesTime

\* the frames of n rows
RECURSIVE Frames(_)
Frames(n) ==
    IF n = 0 THEN {<<>>}
    ELSE LET longer ==
                 {x \in Frames(n - 1) \X DfRows :
                     \/ x[1] = <<>>
                     \/ RowLeq(x[1][Len(x[1])], x[2])}
         IN  {Append(x[1], x[2]) : x \in longer}

\* contrast_protocol_regex: \+c|post|gd|enh|contrast|dyn
MatchesContrastRegex(name) == name \in {"dyn_vibe"}
\* str.startswith('t1')
StartsWithT1(name) == name \in {"t1_tse"}
\* contrast_agent_exclude_regex 'no', case-insensitive
AgentExcluded(agent) == agent \in {"no contrast"}
\* exclude_sequence_regex 'DWI|T2|LOCALIZER'
ClassExcluded(class) == class \in {"T2_TSE"}
\* str.contains('T1')
ContainsT1(class) == class \in {"T1_GRE", "T1_TSE"}
\* dynamicPhase.str.startswith('POST')
StartsWithPost(phase) == phase \notin {"", "PRE"}

\* the rows of study s with fingerprint fp (lines 625-633)
Members(frame, s, fp) ==
    {i \in 1..Len(frame) : /\ frame[i].StudyInstanceUID = s
                           /\ frame[i].fingerprint = fp}

\* mutant: a set without any valid SeriesTime is not skipped
HasValidSeriesTimeAlways(frame, set) == TRUE

\* not dynamic_set_df['SeriesTime'].isnull().all() (line 639)
HasValidSeriesTime(frame, set) == \E i \in set : frame[i].SeriesTime # 0

\* the dynamic sets that get phases: more than one row (line 630) and not
\* every SeriesTime null (line 639)
DynamicSets(frame) ==
    {g \in {<<frame[i].StudyInstanceUID, frame[i].fingerprint>> :
                i \in 1..Len(frame)} :
        /\ Cardinality(Members(frame, g[1], g[2])) > 1
        /\ HasValidSeriesTime(frame, Members(frame, g[1], g[2]))}

\* sort_values(by='SeriesTime'): ascending, NaN last, equal times in the
\* order of the frame
TimeAfter(frame, j, i) ==
    \/ frame[j].SeriesTime # 0 /\ frame[i].SeriesTime # 0
           /\ frame[j].SeriesTime > frame[i].SeriesTime
    \/ frame[j].SeriesTime # 0 /\ frame[i].SeriesTime = 0
    \/ frame[j].SeriesTime = frame[i].SeriesTime /\ j < i
TimeBefore(frame, j, i) ==
    \/ frame[j].SeriesTime # 0 /\ frame[i].SeriesTime # 0
           /\ frame[j].SeriesTime < frame[i].SeriesTime
    \/ frame[j].SeriesTime # 0 /\ frame[i].SeriesTime = 0
    \/ frame[j].SeriesTime = frame[i].SeriesTime /\ j < i

\* lines 654-656: 'PRE' for the first of the sorted set, f'POST_{i+1}' after
PhaseName(position) ==
    IF position = 0 THEN "PRE" ELSE "POST_" \o ToString(position)

\* the place of row i in the sorted set it belongs to, from 0
SortedPosition(frame, i) ==
    Cardinality({j \in Members(frame, frame[i].StudyInstanceUID,
                               frame[i].fingerprint) : TimeBefore(frame, j, i)})

\* the order in which the loops at lines 628 and 632 reach the dynamic sets:
\* studies ascending, then the value_counts order of the fingerprints
FirstIndex(frame, g) ==
    CHOOSE i \in Members(frame, g[1], g[2]) :
        \A j \in Members(frame, g[1], g[2]) : i <= j
ReachedBefore(frame, g, h) ==
    \/ g[1] < h[1]
    \/ /\ g[1] = h[1]
       /\ \/ Cardinality(Members(frame, g[1], g[2]))
                 > Cardinality(Members(frame, h[1], h[2]))
          \/ /\ Cardinality(Members(frame, g[1], g[2]))
                    = Cardinality(Members(frame, h[1], h[2]))
             /\ FirstIndex(frame, g) < FirstIndex(frame, h)

\* next_dynamic_group_id when the set g is reached (lines 626, 651, 658)
GroupId(frame, g) ==
    1 + Cardinality({h \in DynamicSets(frame) : ReachedBefore(frame, h, g)})

\* lines 666-672
DynamicAwareEnhanced(row) ==
    /\ \/ StartsWithPost(row.dynamicPhase)
       \/ MatchesContrastRegex(row.protocolName_lower)
    /\ row.ContrastBolusAgent # "NaN"
    /\ ~AgentExcluded(row.ContrastBolusAgent)
    /\ ~ClassExcluded(row.sequenceClass)

\* analyze_dynamic_series
AnalyzedRow(frame, i) ==
    LET g == <<frame[i].StudyInstanceUID, frame[i].fingerprint>>
        grouped ==
            IF g \in DynamicSets(frame)
            THEN [frame[i] EXCEPT
                      !.dynamicGroup = GroupId(frame, g),
                      !.dynamicPhase = PhaseName(SortedPosition(frame, i))]
            ELSE frame[i]
    IN  [grouped EXCEPT !.isContrastEnhanced = DynamicAwareEnhanced(grouped)]

\* process_mri_dataframe, lines 770-774
ProtocolEnhanced(row) ==
    /\ StartsWithT1(row.protocolName_lower)
    /\ row.ContrastBolusAgent # "NaN"
    /\ ~AgentExcluded(row.ContrastBolusAgent)

\* post_contrast_series of a study (line 702)
PostContrastSeries(frame, s) ==
    {i \in 1..Len(frame) : /\ frame[i].StudyInstanceUID = s
                           /\ frame[i].isContrastEnhanced}

\* post_contrast_series['SeriesTime'].max(): NaN is skipped, 0 when all NaN
LastPostContrastTime(frame, s) ==
    LET times == {frame[i].SeriesTime : i \in PostContrastSeries(frame, s)}
                     \cup {0}
    IN  CHOOSE t \in times : \A u \in times : u <= t

\* lines 700-735 for one row
PropagatedRow(frame, i) ==
    LET s == frame[i].StudyInstanceUID
    IN  IF /\ PostContrastSeries(frame, s) # {}
           /\ frame[i].dynamicPhase = ""
           /\ ContainsT1(frame[i].sequenceClass)
           /\ frame[i].SeriesTime # 0
           /\ LastPostContrastTime(frame, s) # 0
           /\ frame[i].SeriesTime > LastPostContrastTime(frame, s)
        THEN [frame[i] EXCEPT !.dynamicPhase = "POST_PROPAGATED",
                              !.isContrastEnhanced = TRUE]
        ELSE frame[i]

\* no frame is being processed
DfIdle ==
    /\ df_pc = "idle"
    /\ df = <<>>

DfInit ==
    /\ df_pc = "input"
    /\ df \in Frames(NumRows)

\* df_dynamic = analyze_dynamic_series(df_hardware_featured, cfg)
DfAnalyze ==
    /\ df_pc = "input"
    /\ df' = [i \in 1..Len(df) |-> AnalyzedRow(df, i)]
    /\ df_pc' = "analyzed"
    /\ UNCHANGED besidesDf

\* df_dynamic['isContrastEnhanced'] = ... (lines 770-774)
DfRecompute ==
    /\ df_pc = "analyzed"
    /\ df' = [i \in 1..Len(df) |->
                 [df[i] EXCEPT !.isContrastEnhanced = ProtocolEnhanced(df[i])]]
    /\ df_pc' = "recomputed"
    /\ UNCHANGED besidesDf

\* df_final = propagate_enhancement_status(df_dynamic, cfg); return df_final
DfPropagate ==
    /\ df_pc = "recomputed"
    /\ df' = [i \in 1..Len(df) |-> PropagatedRow(df, i)]
    /\ df_pc' = "returned"
    /\ UNCHANGED besidesDf

DfNext ==
    \/ DfAnalyze
    \/ DfRecompute
    \/ DfPropagate

(***************************************************************************)
(* client_download.py: download_list, run any number of times over one     *)
(* output directory.  main(main_args) is followed through its three steps  *)
(* (submit, poll_task_status, download_and_extract); the progress file is  *)
(* written by save_progress only.                                          *)
(***************************************************************************)
\* most runs of download_list over the output directory
MaxRuns == 2
\* longest acc_list given to a run
MaxList == 2
\* the accession numbers the lists are made of
Accessions == {"Z1", "Z2"}

RECURSIVE ListsUpTo(_)
ListsUpTo(n) ==
    IF n = 0 THEN {<<>>}
    ELSE ListsUpTo(n - 1)
            \cup {Append(l, a) : l \in {q \in ListsUpTo(n - 1) : Len(q) = n - 1},
                                 a \in Accessions}

AccLists == ListsUpTo(MaxList) \ {<<>>}

\* load_progress(output_dir): (set(), {}) when the file does not exist, else
\* the set of its 'completed' entries
load_progress(file) == file

\* what save_progress(output_dir, completed, timings) may leave in the file:
\* the new payload, or the old content when the write raised (the except of
\* save_progress prints and returns)
save_progress(file, completed_set) == {completed_set, file}

\* download_list with every accession the loop reaches marked as completed
MarksCompletedAlways(flag) == TRUE
\* `if ok:` of download_list
MarksCompleted(flag) == flag

\* no run of download_list has started
ListIdle ==
    /\ list_pc = "idle"
    /\ acc_list = <<>>
    /\ list_i = 0
    /\ completed = {}
    /\ progress_file = {}
    /\ ok = FALSE
    /\ list_runs = 0
    /\ submitted = {}
    /\ extracted = {}
    /\ failed_now = {}
    /\ failed_before = {}

\* download_list(acc_list, output_dir): completed, timings = load_progress(..)
ListStart ==
    /\ list_pc \in {"idle", "done"}
    /\ list_runs < MaxRuns
    /\ acc_list' \in AccLists
    /\ completed' = load_progress(progress_file)
    /\ list_i' = 1
    /\ list_pc' = "loop"
    /\ submitted' = {}
    /\ failed_before' = failed_now \ progress_file
    /\ failed_now' = {}
    /\ UNCHANGED <<progress_file, ok, list_runs, extracted>>
    /\ UNCHANGED besidesList

\* `if str(accession) in completed: continue`
ListSkip ==
    /\ list_pc = "loop"
    /\ list_i <= Len(acc_list)
    /\ acc_list[list_i] \in completed
    /\ list_i' = list_i + 1
    /\ UNCHANGED <<list_pc, acc_list, completed, progress_file, ok, list_runs,
                   submitted, extracted, failed_now, failed_before>>
    /\ UNCHANGED besidesList

\* main: requests.post(API_SINGLE, json=payload); status 200 gives a task_id,
\* any other status or an exception makes main return False
ListSubmit ==
    /\ list_pc = "loop"
    /\ list_i <= Len(acc_list)
    /\ acc_list[list_i] \notin completed
    /\ submitted' = submitted \cup {acc_list[list_i]}
    /\ \/ /\ list_pc' = "polling"
          /\ UNCHANGED ok
       \/ /\ list_pc' = "returned"
          /\ ok' = FALSE
    /\ UNCHANGED <<acc_list, list_i, completed, progress_file, list_runs,
                   extracted, failed_now, failed_before>>
    /\ UNCHANGED besidesList

\* main: success, result = poll_task_status(task_id): True on status
\* 'completed'; False on 'failed', 'cancelled', a bad response or an exception
ListPoll ==
    /\ list_pc = "polling"
    /\ \/ /\ list_pc' = "download"
          /\ UNCHANGED ok
       \/ /\ list_pc' = "returned"
          /\ ok' = FALSE
    /\ UNCHANGED <<acc_list, list_i, completed, progress_file, list_runs,
                   submitted, extracted, failed_now, failed_before>>
    /\ UNCHANGED besidesList

\* main: ok = download_and_extract(task_id, output_dir, accession);
\* return bool(ok)
ListDownload ==
    /\ list_pc = "download"
    /\ list_pc' = "returned"
    /\ \/ /\ ok' = TRUE
          /\ extracted' = extracted \cup {acc_list[list_i]}
       \/ /\ ok' = FALSE
          /\ UNCHANGED extracted
    /\ UNCHANGED <<acc_list, list_i, completed, progress_file, list_runs,
                   submitted, failed_now, failed_before>>
    /\ UNCHANGED besidesList

\* `if ok: completed.add(..); save_progress(..) else: (message)`
ListMark ==
    /\ list_pc = "returned"
    /\ IF MarksCompleted(ok)
         THEN /\ completed' = completed \cup {acc_list[list_i]}
              /\ progress_file' \in save_progress(progress_file, completed')
              /\ UNCHANGED failed_now
         ELSE /\ failed_now' = failed_now \cup {acc_list[list_i]}
              /\ UNCHANGED <<completed, progress_file>>
    /\ list_i' = list_i + 1
    /\ list_pc' = "loop"
    /\ UNCHANGED <<acc_list, ok, list_runs, submitted, extracted,
                   failed_before>>
    /\ UNCHANGED besidesList

\* the for loop is exhausted and download_list returns
ListEnd ==
    /\ list_pc = "loop"
    /\ list_i > Len(acc_list)
    /\ list_pc' = "done"
    /\ list_runs' = list_runs + 1
    /\ UNCHANGED <<acc_list, list_i, completed, progress_file, ok, submitted,
                   extracted, failed_now, failed_before>>
    /\ UNCHANGED besidesList

ListNext ==
    \/ ListStart
    \/ ListSkip
    \/ ListSubmit
    \/ ListPoll
    \/ ListDownload
    \/ ListMark
    \/ ListEnd

(***************************************************************************)
(* web/app.py: process_batch_task, the worker of one batch job.            *)
(*   pc       position of the worker                                       *)
(*   total    len(accession_numbers)                                       *)
(*   i        accessions the loop has gone through                         *)
(*   results  the list `results`: per accession "success" or "partial" (a  *)
(*            result map with success True or False), "None", or "error"   *)
(*            (the map {'accession_number', 'error'} of the except branch) *)
(*   status   ProcessingTask.status ("none": no task)                      *)
(*   result   task.result: <<total_processed, total_failed>>, or <<>>      *)
(*   cause    which statement ended the job as failed                      *)
(***************************************************************************)
\* most accession numbers in one batch request
MaxBatch == 3

BatchIdle ==
    batch = [pc |-> "idle", total |-> 0, i |-> 0, results |-> <<>>,
             status |-> "none", result |-> <<>>, cause |-> "none"]

\* what one call of process_complete_workflow does: it raises, returns None
\* (the download failed, e.g. accession not found), or returns a result map
\* with success True or False
WorkflowOutcomes == {"raised", "None", "success", "partial"}

\* the entry appended to `results` (lines 982-987)
ResultEntry(outcome) == IF outcome = "raised" THEN "error" ELSE outcome

\* r.get('success') / r.get('error') on an entry; None has no get
HasGet(entry) == entry # "None"
Count(list, kind) == Cardinality({k \in 1..Len(list) : list[k] = kind})

\* POST /api/process/batch with a non-empty list: the task is created and
\* the worker thread started
BatchSubmit ==
    /\ batch.pc = "idle"
    /\ \E n \in 1..MaxBatch :
          batch' = [batch EXCEPT !.pc = "connect", !.total = n,
                                 !.status = "pending"]
    /\ UNCHANGED besidesBatch

\* update_status('running', 5, ..), DICOMDownloadClient(), login: a raise or a
\* refused login goes to the outer except
BatchConnect ==
    /\ batch.pc = "connect"
    /\ \/ batch' = [batch EXCEPT !.pc = "loop", !.status = "running"]
       \/ batch' = [batch EXCEPT !.pc = "done", !.status = "failed",
                                 !.cause = "login"]
    /\ UNCHANGED besidesBatch

\* one iteration of `for i, accno in enumerate(accession_numbers)`
BatchWorkflow ==
    /\ batch.pc = "loop"
    /\ batch.i < batch.total
    /\ \E outcome \in WorkflowOutcomes :
          batch' = [batch EXCEPT !.i = @ + 1, !.status = "running",
                                 !.results = Append(@, ResultEntry(outcome))]
    /\ UNCHANGED besidesBatch

\* after the loop: update_status('running', 95, ..) and create_result_zip,
\* which may raise
BatchZip ==
    /\ batch.pc = "loop"
    /\ batch.i = batch.total
    /\ \/ batch' = [batch EXCEPT !.pc = "summary", !.status = "running"]
       \/ batch' = [batch EXCEPT !.pc = "done", !.status = "failed",
                                 !.cause = "zip"]
    /\ UNCHANGED besidesBatch

\* task.result = {... 'total_processed': len([r for r in results if
\* r.get('success')]), 'total_failed': len([r for r in results if
\* r.get('error')])}; update_status('completed', 100, ..).  An entry None
\* raises AttributeError, which the outer except turns into status failed
BatchSummary ==
    /\ batch.pc = "summary"
    /\ IF \A k \in 1..Len(batch.results) : HasGet(batch.results[k])
       THEN batch' = [batch EXCEPT
                         !.pc = "done", !.status = "completed",
                         !.result = <<Count(batch.results, "success"),
                                      Count(batch.results, "error")>>]
       ELSE batch' = [batch EXCEPT !.pc = "done", !.status = "failed",
                                   !.cause = "summary"]
    /\ UNCHANGED besidesBatch

BatchNext ==
    \/ BatchSubmit
    \/ BatchConnect
    \/ BatchWorkflow
    \/ BatchZip
    \/ BatchSummary

(***************************************************************************)
(* web/app.py: the jobs of the server, POST /api/task/<id>/cancel and the  *)
(* thread check_and_cleanup_results starts for cleanup_old_results.        *)
(* jobs[t]:                                                                *)
(*   status   ProcessingTask.status ("none": not submitted)                *)
(*   worker   the worker thread: "none", "started", "working" (the result  *)
(*            directory is made), "finished" (after its last status update)*)
(*   items    which of "dir" (RESULT_FOLDER/<task_id>) and "zip" exist     *)
(* cleanup:                                                                *)
(*   pc       "idle", "size", "scan", "filter", "delete", "done"           *)
(*   items_to_check, items_to_clean   as in the code, as <<task, item>>    *)
(***************************************************************************)
\* tasks in processing_tasks
NumTasks == 2

Tasks == 1..NumTasks

WebIdle ==
    /\ jobs = [t \in Tasks |-> [status |-> "none", worker |-> "none",
                                items |-> {}]]
    /\ cleanup = [pc |-> "idle", items_to_check |-> {}, items_to_clean |-> {}]

\* task.status in ['running', 'pending'] (line 225)
IsActive(st) == st \in {"running", "pending"}

\* POST /api/process/single: ProcessingTask(...) is pending, the worker
\* thread is started
JobSubmit(t) ==
    /\ jobs[t].status = "none"
    /\ jobs' = [jobs EXCEPT ![t].status = "pending", ![t].worker = "started"]
    /\ UNCHANGED cleanup
    /\ UNCHANGED besidesWeb

\* process_single_task up to os.makedirs(result_dir): the status updates to
\* running and the result directory; or an exception before it (client,
\* PACS check, login) fails the task
JobPrepare(t) ==
    /\ jobs[t].worker = "started"
    /\ \/ jobs' = [jobs EXCEPT ![t].status = "running", ![t].worker = "working",
                               ![t].items = {"dir"}]
       \/ jobs' = [jobs EXCEPT ![t].status = "failed", ![t].worker = "finished"]
    /\ UNCHANGED cleanup
    /\ UNCHANGED besidesWeb

\* a later task.update_status('running', ..) of the worker (query, download
\* progress callback)
JobProgress(t) ==
    /\ jobs[t].worker = "working"
    /\ jobs' = [jobs EXCEPT ![t].status = "running"]
    /\ UNCHANGED cleanup
    /\ UNCHANGED besidesWeb

\* the end of the worker: the zip is created, update_status('completed') and
\* check_and_cleanup_results() starts the cleanup thread; or
\* update_status('failed')
JobFinish(t) ==
    /\ jobs[t].worker = "working"
    /\ \/ /\ jobs' = [jobs EXCEPT ![t].status = "completed",
                                  ![t].worker = "finished",
                                  ![t].items = @ \cup {"zip"}]
          /\ cleanup' = IF cleanup.pc \in {"idle", "done"}
                        THEN [cleanup EXCEPT !.pc = "size"]
                        ELSE cleanup
       \/ /\ jobs' = [jobs EXCEPT ![t].status = "failed", ![t].worker = "finished"]
          /\ UNCHANGED cleanup
    /\ UNCHANGED besidesWeb

\* cancel_task: 400 for a task in completed, failed or cancelled, else
\* task.update_status('cancelled')
JobCancel(t) ==
    /\ jobs[t].status \notin {"none", "completed", "failed", "cancelled"}
    /\ jobs' = [jobs EXCEPT ![t].status = "cancelled"]
    /\ UNCHANGED cleanup
    /\ UNCHANGED besidesWeb

\* cleanup_old_results: if current_size < CLEANUP_THRESHOLD_GB: return
CleanupSize ==
    /\ cleanup.pc = "size"
    /\ \/ cleanup' = [cleanup EXCEPT !.pc = "done"]
       \/ cleanup' = [cleanup EXCEPT !.pc = "scan"]
    /\ UNCHANGED jobs
    /\ UNCHANGED besidesWeb

\* for item in os.listdir(results_dir): items_to_check.append(...)
CleanupScan ==
    /\ cleanup.pc = "scan"
    /\ cleanup' = [cleanup EXCEPT
                      !.pc = "filter",
                      !.items_to_check =
                          {<<t, x>> : t \in Tasks, x \in {"dir", "zip"}}
                              \cap {it \in Tasks \X {"dir", "zip"} :
                                       it[2] \in jobs[it[1]].items}]
    /\ UNCHANGED jobs
    /\ UNCHANGED besidesWeb

\* active_task_ids and the filter of lines 224-239; nothing left: return
CleanupFilter ==
    /\ cleanup.pc = "filter"
    /\ LET active_task_ids == {t \in Tasks : IsActive(jobs[t].status)}
           items_to_clean == {it \in cleanup.items_to_check :
                                 it[1] \notin active_task_ids}
       IN  cleanup' = [cleanup EXCEPT
                          !.pc = IF items_to_clean = {} THEN "done" ELSE "delete",
                          !.items_to_clean = items_to_clean]
    /\ UNCHANGED jobs
    /\ UNCHANGED besidesWeb

\* the loop of lines 249-264: the next item in access-time order is removed
\* (shutil.rmtree / os.remove), or enough has been cleaned and the loop ends
CleanupDelete ==
    /\ cleanup.pc = "delete"
    /\ \/ /\ cleanup' = [cleanup EXCEPT !.pc = "done"]
          /\ UNCHANGED jobs
       \/ \E it \in cleanup.items_to_clean :
             /\ jobs' = [jobs EXCEPT ![it[1]].items = @ \ {it[2]}]
             /\ cleanup' = [cleanup EXCEPT
                               !.items_to_clean = @ \ {it},
                               !.pc = IF cleanup.items_to_clean = {it}
                                      THEN "done" ELSE "delete"]
    /\ UNCHANGED besidesWeb

WebNext ==
    \/ \E t \in Tasks :
          JobSubmit(t) \/ JobPrepare(t) \/ JobProgress(t) \/ JobFinish(t)
              \/ JobCancel(t)
    \/ CleanupSize
    \/ CleanupScan
    \/ CleanupFilter
    \/ CleanupDelete

AppIdle == ListIdle /\ BatchIdle /\ WebIdle

MrIdle == OrIdle /\ ClIdle /\ DfIdle

Init == PipeInit /\ CvInit /\ StudyInit /\ SanIdle /\ MrIdle /\ AppIdle
Next == PipeNext
Spec == Init /\ [][Next]_vars
ConvSpec == Init /\ [][CvNext]_vars
StudySpec == Init /\ [][StudyNext]_vars
SanStart == PipeInit /\ CvInit /\ StudyInit /\ SanInit /\ MrIdle /\ AppIdle
SanSpec == SanStart /\ [][SanNext]_vars
OrStart == PipeInit /\ CvInit /\ StudyInit /\ SanIdle /\ OrInit /\ ClIdle /\ DfIdle /\ AppIdle
OrSpec == OrStart /\ [][OrNext]_vars
ClStart == PipeInit /\ CvInit /\ StudyInit /\ SanIdle /\ OrIdle /\ ClInit /\ DfIdle /\ AppIdle
ClSpec == ClStart /\ [][ClNext]_vars
DfStart == PipeInit /\ CvInit /\ StudyInit /\ SanIdle /\ OrIdle /\ ClIdle /\ DfInit /\ AppIdle
DfSpec == DfStart /\ [][DfNext]_vars
ListSpec == Init /\ [][ListNext]_vars
BatchSpec == Init /\ [][BatchNext]_vars
WebSpec == Init /\ [][WebNext]_vars

(***************************************************************************)
(* Scheduling: every started thread keeps running (each thread is a        *)
(* threading.Thread the interpreter schedules), and the calls the          *)
(* termination claim takes as returning do return: the polling of          *)
(* _wait_for_disk_low ends (download_study returns).                       *)
(***************************************************************************)
DlStep ==
    DlQuery \/ DlAssociate \/ DlWaitEnter \/ DlWaitPoll \/ DlSendMove
        \/ DlMoveDone \/ DlDeliver
ConvStep(w) == ConvGet(w) \/ ConvProcess(w) \/ ConvTaskDone(w)
MainStep ==
    MainStart \/ MainJoinDownload \/ MainPutSentinel \/ MainQueueJoin
        \/ MainThreadJoin \/ MainMetadata
DlWaitEnds == DlWaitPoll /\ dl_pc' = "send_move"

FairSpec ==
    /\ Spec
    /\ WF_vars(DlStep)
    /\ WF_vars(DlWaitEnds)
    /\ \A w \in Converters : WF_vars(ConvStep(w))
    /\ WF_vars(MainStep)

(***************************************************************************)
(* Derived sets used by the claims.                                        *)
(***************************************************************************)
\* series the downloader has put on series_queue
Delivered == {s \in downloaded : ~(dl_pc = "deliver" /\ s = dl_i)}
\* series downloaded whose processing by a converter has not returned yet
Pending == downloaded \ processed
\* the main thread is in, or past, the metadata task or has returned
PastJoins == main_pc \in {"metadata", "returned", "returned_None"}

C2_PendingAtMostMaxPending == Cardinality(Pending) <= MaxPending

(***************************************************************************)
(* C2 (amended): at every instant the number of series downloaded but not  *)
(* yet converted is at most MAX_PENDING_SERIES + NUM_CONVERTERS + 1: the   *)
(* queue, one series in each converter, and the one the downloader is      *)
(* delivering.                                                             *)
(***************************************************************************)
C2_PendingBound == Cardinality(Pending) <= MaxPending + NumConverters + 1

\* the amended bound is reached: full queue, busy converters, blocked downloader
C2_Witness ==
    /\ Cardinality(Pending) = MaxPending + NumConverters + 1
    /\ Len(series_queue) = MaxPending
    /\ \A w \in Converters : conv_pc[w] = "process"
    /\ dl_pc = "deliver"

(***************************************************************************)
(* C3: once _wait_for_disk_low has read a size >= the high watermark it    *)
(* leaves its polling loop only on reading a size <= the low watermark.    *)
(***************************************************************************)
C3_ResumeOnlyAtLowWatermark ==
    [][(dl_pc = "disk_sleep" /\ dl_pc' # "disk_sleep")
          => current' <= LOW_WATERMARK_GB]_vars

C5_PipelineTerminates ==
    <>[](/\ main_pc \in {"returned", "returned_None"}
         /\ dl_pc = "finished"
         /\ \A w \in Converters : conv_pc[w] = "exit" /\ sentinels_got[w] = 1
         /\ unfinished_tasks = 0
         /\ series_queue = <<>>)

\* a run over a full study has returned with every converter stopped
C5_Witness ==
    /\ main_pc = "returned"
    /\ processed = Series
    /\ \A w \in Converters : conv_pc[w] = "exit" /\ sentinels_got[w] = 1

(***************************************************************************)
(* Conversion claims (ConvSpec).                                           *)
(***************************************************************************)
\* why convert_with_dcm2niix is returning failure
FailureKind(r) ==
    IF r.available = "missing" THEN "missing"
    ELSE IF r.mode = "empty" THEN "no_files"
    ELSE IF r.raised THEN "raised"
    ELSE IF r.returncode = 0 THEN "empty"
    ELSE "nonzero"

\* convert_with_dcm2niix is returning failure to its caller
ToolFailing(r) == r.pc = "tool_returned" /\ r.tool_result = "failure"

(***************************************************************************)
(* C6: at most one dcm2niix conversion subprocess runs at any instant: a   *)
(* thread inside the lock-protected subprocess.run holds the lock, and no  *)
(* two threads are inside it together, retries included.                   *)
(***************************************************************************)
C6_OneConversionAtATime ==
    /\ Cardinality({w \in Workers : cv[w].pc = "run"}) <= 1
    /\ \A w \in Workers : cv[w].pc = "run" => dcm2niix_global_lock = w

\* one thread is inside a retry run while another waits for the lock
C6_Witness ==
    \E w1, w2 \in Workers :
        /\ w1 # w2
        /\ cv[w1].pc = "run" /\ cv[w1].runs >= 1
        /\ cv[w2].pc = "acquire"

(***************************************************************************)
(* C7: every run of the dcm2niix executable made by convert_with_dcm2niix, *)
(* the availability check and the conversion runs alike, is made while the *)
(* calling thread holds dcm2niix_global_lock.                              *)
(***************************************************************************)
C7_EveryInvocationUnderLock ==
    \A w \in Workers :
        cv[w].pc \in {"available_check", "run"} => dcm2niix_global_lock = w

(***************************************************************************)
(* C8 (as claimed): for a missing executable, a non-zero exit code and a   *)
(* zero exit code with no output file alike, the tool-backed conversion    *)
(* reports failure (and the fallback runs) only after 3 attempts.          *)
(***************************************************************************)
C8_ThreeAttemptsBeforeFallback ==
    \A w \in Workers :
        (ToolFailing(cv[w]) /\ FailureKind(cv[w]) \in {"missing", "nonzero", "empty"})
            => cv[w].runs = MAX_ATTEMPTS

(***************************************************************************)
(* C8 (amended): only a non-zero exit code is retried.  A conversion whose *)
(* runs all exit non-zero is given up after exactly 3 attempts; a missing  *)
(* executable fails the availability check with no conversion attempt; an  *)
(* exit code 0 ends the retry loop at once, so a zero exit with no output  *)
(* file is not retried; and the fallback starts only after                 *)
(* convert_with_dcm2niix has returned failure.                             *)
(***************************************************************************)
C8_OnlyNonZeroExitIsRetried ==
    /\ [](\A w \in Workers :
            /\ (ToolFailing(cv[w]) /\ FailureKind(cv[w]) = "nonzero")
                  => cv[w].runs = MAX_ATTEMPTS
            /\ (ToolFailing(cv[w]) /\ FailureKind(cv[w]) = "missing")
                  => cv[w].runs = 0
            /\ (ToolFailing(cv[w]) /\ FailureKind(cv[w]) = "empty")
                  => cv[w].runs \in 1..MAX_ATTEMPTS
            /\ cv[w].pc = "python" => cv[w].tool_result = "failure")
    /\ [][\A w \in Workers :
            (cv[w].pc = "check" /\ cv[w].returncode = 0)
                => /\ cv'[w].pc \in {"check", "evaluate"}
                   /\ cv'[w].runs = cv[w].runs]_vars

\* a zero exit with no output file fails the tool-backed path after one attempt
C8_Witness ==
    \E w \in Workers :
        /\ ToolFailing(cv[w])
        /\ cv[w].mode = "series"
        /\ FailureKind(cv[w]) = "empty"
        /\ cv[w].runs = 1

(***************************************************************************)
(* C9: in both entry points the pure-library conversion is attempted if    *)
(* and only if the tool-backed conversion returned failure; the tool-backed*)
(* conversion is tried first, and after its success the pure-library       *)
(* conversion is not run.                                                  *)
(***************************************************************************)
C9_FallbackIffToolFailed ==
    \A w \in Workers :
        /\ (cv[w].pc = "python" \/ cv[w].py_result # "none")
              => cv[w].tool_result = "failure"
        /\ cv[w].pc = "returned"
              => /\ cv[w].entry \in {"nifti", "npz"}
                 /\ cv[w].tool_result # "none"
                 /\ (cv[w].py_result # "none") <=> (cv[w].tool_result = "failure")

\* one entry point returned after the fallback, the other without it
C9_Witness ==
    \E w1, w2 \in Workers :
        /\ cv[w1].pc = "returned" /\ cv[w1].entry = "npz"
        /\ cv[w1].tool_result = "failure" /\ cv[w1].py_result = "success"
        /\ cv[w2].pc = "returned" /\ cv[w2].entry = "nifti"
        /\ cv[w2].tool_result = "success" /\ cv[w2].py_result = "none"

(***************************************************************************)
(* C10: when a converter (convert_with_dcm2niix or                         *)
(* convert_with_python_libs) returns, the original .dcm files of the       *)
(* series have been deleted if and only if at least one output file exists *)
(* in the series directory.                                                *)
(***************************************************************************)
C10_DeletedIffOutputExists ==
    \A w \in Workers :
        cv[w].pc \in {"tool_returned", "returned"}
            => (cv[w].originals_deleted <=> cv[w].has_output)

(***************************************************************************)
(* C11: whenever convert_dicom_to_nifti or convert_to_npz returns          *)
(* success=False for a series, the original .dcm files of the series are   *)
(* still in the series directory (originals are deleted only after         *)
(* success).                                                               *)
(***************************************************************************)
C11_FailureKeepsOriginals ==
    \A w \in Workers :
        (cv[w].pc = "entry_returned" /\ cv[w].result = "failure")
            => ~cv[w].originals_deleted

(***************************************************************************)
(* Study-job claims (StudySpec).                                           *)
(***************************************************************************)
\* the series 1..n in discovery order
InOrder(n) == [k \in 1..n |-> k]
\* the move association was established in this call
MoveAssociated == study.assoc \in {"established", "released"}

(***************************************************************************)
(* C12 (as claimed): once the move association is established,             *)
(* on_series_downloaded is invoked exactly once for every discovered       *)
(* series, in discovery order, whatever happens to the C-MOVEs and to the  *)
(* earlier invocations.                                                    *)
(***************************************************************************)
C12_CallbackForEverySeries ==
    (study.pc = "returned" /\ MoveAssociated)
        => study.callbacks = InOrder(study.series_metadata)

(***************************************************************************)
(* C12 (amended): the invocations of on_series_downloaded are always the   *)
(* series 1..k in discovery order, each once.  A C-MOVE that ends with any *)
(* status or with no response, and an invocation that raised, do not stop  *)
(* the loop: while series i is being moved the callback has been invoked   *)
(* for exactly the series before i, and a loop that ends normally has      *)
(* invoked it for every discovered series.  An exception raised by         *)
(* send_c_move or by the iteration of its responses ends the study: the    *)
(* callback is not invoked for that series nor for any later one.          *)
(***************************************************************************)
C12_CallbackInOrderUntilException ==
    /\ study.callbacks = InOrder(Len(study.callbacks))
    /\ study.pc \in {"send_move", "responses", "sleep", "callback"}
          => Len(study.callbacks) = study.i - 1
    /\ (MoveAssociated /\ study.exit = "normal")
          => study.callbacks = InOrder(study.series_metadata)
    /\ (MoveAssociated /\ study.exit = "abort")
          => /\ Len(study.callbacks) = study.i - 1
             /\ Len(study.callbacks) < study.series_metadata

\* every series got its callback although a C-MOVE ended badly and an
\* invocation raised
C12_Witness ==
    /\ study.pc = "returned"
    /\ study.exit = "normal"
    /\ study.series_metadata >= 2
    /\ study.bad_status
    /\ study.cb_raised
    /\ study.callbacks = InOrder(study.series_metadata)

(***************************************************************************)
(* C13: every instance handle_store saves goes into the directory of the   *)
(* series whose C-MOVE requested it, and when on_series_downloaded is      *)
(* invoked for series i no store of series i is still to come (also when   *)
(* the C-MOVE of series i ended with no response).                         *)
(***************************************************************************)
C13_StoresReachTheirSeriesDirectory ==
    /\ \A p \in stored : p[1] = p[2]
    /\ study.pc = "callback" => pacs_pending[study.i] = 0

(***************************************************************************)
(* C14: download_study returns the study directory only if handle_store    *)
(* received and saved at least one instance; with zero files received it   *)
(* returns None, even when every C-MOVE reported success.                  *)
(***************************************************************************)
C14_PathOnlyIfFilesReceived ==
    study.pc = "returned"
        => /\ study.ret = "path" => (study.files_received > 0 /\ stored # {})
           /\ study.files_received = 0 => study.ret = "None"

\* every C-MOVE reported success, nothing was received, None is returned
C14_Witness ==
    /\ study.pc = "returned"
    /\ study.exit = "normal"
    /\ study.series_metadata >= 1
    /\ ~study.bad_status
    /\ study.files_received = 0
    /\ study.ret = "None"

(***************************************************************************)
(* C15: when the PACS refuses the association (for the query or for the    *)
(* moves) download_study ends with a result that differs from the one it   *)
(* gives when the C-FIND matches no study.                                 *)
(***************************************************************************)
C15_RefusedDistinguishableFromNotFound ==
    (study.pc = "returned" /\ study.cause \in {"query_refused", "move_refused"})
        => study.ret # NotFoundResult

(***************************************************************************)
(* C16: when the accession matches no study, the run returns not-found and *)
(* afterwards neither the study directory nor the organized directory      *)
(* created by the run is left under the output directory.                  *)
(***************************************************************************)
C16_NotFoundLeavesNoDirectory ==
    (task.pc = "done" /\ study.cause = "not_found")
        => /\ task.results = "None"
           /\ dirs \cap {"study_root", "organized"} = {}

C18_NoMoveAfterCancel ==
    [][(task.status = "cancelled" /\ study.pc = "loop")
          => study'.pc # "send_move"]_vars

(***************************************************************************)
(* C19: when download and conversion succeeded and the metadata workbook   *)
(* could not be written, the job is not reported as failed and the result  *)
(* zip archive is built from the organized directory.                      *)
(***************************************************************************)
C19_MetadataFailureKeepsZip ==
    (task.pc = "done" /\ task.caller = "web" /\ task.metadata_failed)
        => /\ task.result_zip
           /\ task.status # "failed"

(***************************************************************************)
(* C20: folder-name sanitization is idempotent: for every name n,          *)
(* _sanitize_folder_name(_sanitize_folder_name(n)) equals                  *)
(* _sanitize_folder_name(n), names longer than 50 characters included.     *)
(***************************************************************************)
C20_SanitizeIdempotent ==
    san_pc = "twice" => san_twice = san_once

(***************************************************************************)
(* C21: for every input name the result of _sanitize_folder_name contains  *)
(* none of the characters < > : " / \ | ? *, has no leading or trailing    *)
(* dot or space, is at most 50 characters long and is never empty.         *)
(***************************************************************************)
C21_SanitizedNameWellFormed ==
    san_pc \in {"once", "twice"}
        => /\ \A k \in 1..Len(san_once) : san_once[k] \notin {"/", ":"}
           /\ san_once # <<>>
           /\ Len(san_once) <= MAX_NAME_LEN
           /\ san_once[1] \notin {".", " "}
           /\ san_once[Len(san_once)] \notin {".", " "}

(***************************************************************************)
(* C22.  get_orientation on a list of six numbers: the normal of the row   *)
(* and column vectors decides.                                             *)
(***************************************************************************)
OrNormal == Cross(SubSeq(or_iop, 1, 3), SubSeq(or_iop, 4, 6))
\* component i of the normal carries at least the ratio of the squared norm
Dominant(i) ==
    RATIO_DEN * OrNormal[i] * OrNormal[i] >= RATIO_NUM * SumSquares(OrNormal)

\* C22 as stated: [1,0,0, 0,1,0] is AX, [0,1,0, 0,0,-1] is SAG,
\* [1,0,0, 0,0,-1] is COR and [1,0,0, 0.5,0.5,0] is OBL.
C22_ExamplesAsStated ==
    or_pc = "done"
        => /\ or_iop = <<2, 0, 0, 0, 2, 0>> => or_result = "AX"
           /\ or_iop = <<0, 2, 0, 0, 0, -2>> => or_result = "SAG"
           /\ or_iop = <<2, 0, 0, 0, 0, -2>> => or_result = "COR"
           /\ or_iop = <<2, 0, 0, 1, 1, 0>> => or_result = "OBL"

\* C22, amended: the first three examples are AX, SAG and COR, and
\* [1,0,0, 0.5,0.5,0], whose normal (0, 0, 0.5) lies on the z axis, is AX;
\* for every list of six numbers the result is OBL exactly when no component
\* of the normal carries the ratio of the squared norm, and otherwise the
\* label of the component that does (x SAG, y COR, z AX; a zero normal is
\* SAG).
C22_OrientationByDominantAxis ==
    (or_pc = "done" /\ Len(or_iop) = 6)
        => /\ or_iop = <<2, 0, 0, 0, 2, 0>> => or_result = "AX"
           /\ or_iop = <<0, 2, 0, 0, 0, -2>> => or_result = "SAG"
           /\ or_iop = <<2, 0, 0, 0, 0, -2>> => or_result = "COR"
           /\ or_iop = <<2, 0, 0, 1, 1, 0>> => or_result = "AX"
           /\ or_result \in {"OBL", "SAG", "COR", "AX"}
           /\ or_result = "OBL" <=> \A i \in 1..3 : ~Dominant(i)
           /\ or_result = "SAG" <=> Dominant(1)
           /\ or_result = "COR" <=> (Dominant(2) /\ ~Dominant(1))
           /\ or_result = "AX" <=> (Dominant(3) /\ ~Dominant(1))

\* an oblique slice has been classified: [1,0,0, 0,0.5,0.5]
C22_Witness ==
    /\ or_pc = "done"
    /\ or_iop = <<2, 0, 0, 0, 1, 1>>
    /\ or_result = "OBL"


(***************************************************************************)
(* C23.  Rule A of classify_sequence takes precedence over the physics.    *)
(***************************************************************************)
RuleAOrder ==
    <<"LOCALIZER", "T1_MAP", "T2_MAP", "ADC", "FA_MAP", "SUBTRACTION", "MRA",
      "SWI", "PWI", "MRS", "BREATH MOVEMENT", "MIP">>
\* the keyword set of entry i of rule A matches the row being classified
RuleAMatches(i) ==
    CASE i = 1 -> "localizer" \in cl_row.name
                      \/ cl_row.refinedImageType = "LOCALIZER"
      [] i = 2 -> "t1_map" \in cl_row.name
      [] i = 3 -> "t2_map" \in cl_row.name
      [] i = 4 -> "adc" \in cl_row.name
      [] i = 5 -> "fa_map" \in cl_row.name
      [] i = 6 -> "sub" \in cl_row.name
      [] i = 7 -> "mra" \in cl_row.name
      [] i = 8 -> "swi" \in cl_row.name
      [] i = 9 -> "pwi" \in cl_row.name
      [] i = 10 -> "mrs" \in cl_row.name
      [] i = 11 -> "resp" \in cl_row.SeriesDescription
      [] OTHER -> "mip" \in cl_row.SeriesDescription

\* C23: whenever an entry of rule A matches, the base label is that of the
\* first matching entry in the order LOCALIZER, T1_MAP, T2_MAP, ADC, FA_MAP,
\* SUBTRACTION, MRA, SWI, PWI, MRS, BREATH MOVEMENT, MIP, whatever the physics
\* values are; a name holding localizer with b-value 800 is LOCALIZER, not DWI.
C23_RuleAFirstMatchWins ==
    cl_pc \in {"classified", "done"}
        => /\ \A i \in 1..Len(RuleAOrder) :
                  (RuleAMatches(i) /\ \A j \in 1..(i - 1) : ~RuleAMatches(j))
                      => cl_base = RuleAOrder[i]
           /\ ("localizer" \in cl_row.name /\ cl_row.b_value = "800")
                  => /\ cl_base = "LOCALIZER"
                     /\ cl_pc = "done"
                            => cl_result = Raised \/ cl_result[1] = "LOCALIZER"

\* a localizer with b-value 800 has been classified LOCALIZER
C23_Witness ==
    /\ cl_pc = "done"
    /\ "localizer" \in cl_row.name
    /\ cl_row.b_value = "800"
    /\ cl_result = <<"LOCALIZER">>

(***************************************************************************)
(* C24.  The label is never empty.                                         *)
(***************************************************************************)
\* C24: for every row classify_sequence returns a non-empty label without
\* raising, and when no rule of A, B or C fires the label is exactly UNKNOWN,
\* with no suffix.
C24_LabelNeverEmpty ==
    cl_pc = "done"
        => /\ cl_result # Raised
           /\ cl_result # <<>>
           /\ \A k \in 1..Len(cl_result) : cl_result[k] # ""
           /\ cl_base = "UNKNOWN" => cl_result = <<"UNKNOWN">>

(***************************************************************************)
(* C25.  Rule C and its t2 branch.                                         *)
(***************************************************************************)
\* the row being classified reaches rule C
ReachesRuleC == RuleA(cl_row) = "UNKNOWN" /\ RuleB(cl_row)[1] = "UNKNOWN"

\* C25: rule C is first-match: once the t2 branch has assigned a T2 label no
\* later branch overwrites it, so a name holding t2 that reaches rule C is
\* labelled by the t2 branch.
C25_RuleCFirstMatch ==
    (cl_pc \in {"classified", "done"} /\ ReachesRuleC /\ "t2" \in cl_row.name)
        => cl_base = RuleCT2(cl_row, RuleB(cl_row)[2])

(***************************************************************************)
(* C26.  The suffixes of a label.                                          *)
(***************************************************************************)
SubtypeSuffixes == {"_WATER", "_FAT", "_INPHASE", "_OUTPHASE", "_ECHO2"}
\* the marks of each subtype in the row being classified
WaterMarked == "WATER" \in cl_row.ImageType \/ "water" \in cl_row.name
FatMarked == "FAT" \in cl_row.ImageType \/ "fat" \in cl_row.name
InPhaseMarked == "INPHASE" \in cl_row.ImageType
OutPhaseMarked == "OUTPHASE" \in cl_row.ImageType
EchoMarked == "t2_star_echo_2" \in cl_row.name
MotionMarked == "blade" \in cl_row.name \/ cl_row.hasMotionCorrection
\* the positions of the label that hold one of the given parts
Positions(parts) == {k \in 1..Len(cl_result) : cl_result[k] \in parts}

\* C26: a returned label other than UNKNOWN is its base label, then at most
\* one subtype suffix, the first that applies of _WATER, _FAT, _INPHASE,
\* _OUTPHASE, _ECHO{n}, then _MC at most once and only when motion correction
\* applies.
C26_OneSubtypeSuffixThenMC ==
    (cl_pc = "done" /\ cl_result \notin {Raised, <<"UNKNOWN">>})
        => /\ cl_result[1] = cl_base
           /\ Cardinality(Positions(SubtypeSuffixes)) <= 1
           /\ Cardinality(Positions({"_MC"})) <= 1
           /\ Positions(SubtypeSuffixes) \subseteq {2}
           /\ Positions({"_MC"}) \subseteq {Len(cl_result)} \ {1}
           /\ Positions(SubtypeSuffixes \cup {"_MC"}) = 2..Len(cl_result)
           /\ Positions({"_MC"}) # {} <=> MotionMarked
           /\ Positions({"_WATER"}) # {} <=> WaterMarked
           /\ Positions({"_FAT"}) # {} <=> (FatMarked /\ ~WaterMarked)
           /\ Positions({"_INPHASE"}) # {}
                  <=> (InPhaseMarked /\ ~WaterMarked /\ ~FatMarked)
           /\ Positions({"_OUTPHASE"}) # {}
                  <=> /\ OutPhaseMarked
                      /\ ~WaterMarked /\ ~FatMarked /\ ~InPhaseMarked
           /\ Positions({"_ECHO2"}) # {}
                  <=> /\ EchoMarked
                      /\ ~WaterMarked /\ ~FatMarked
                      /\ ~InPhaseMarked /\ ~OutPhaseMarked

\* a series marked both water and fat, with motion correction, got _WATER
\* and then _MC
C26_Witness ==
    /\ cl_pc = "done"
    /\ WaterMarked /\ FatMarked /\ MotionMarked
    /\ Len(cl_result) = 3
    /\ cl_result[2] = "_WATER"
    /\ cl_result[3] = "_MC"

(***************************************************************************)
(* C27.  The dynamic groups of analyze_dynamic_series.                     *)
(***************************************************************************)
\* the rows of df that share the study and the fingerprint of row i
SameSeries(i) == Members(df, df[i].StudyInstanceUID, df[i].fingerprint)
\* the SeriesTimes of the rows are present and pairwise distinct
DistinctTimes(rows) ==
    /\ \A i \in rows : df[i].SeriesTime # 0
    /\ \A i, j \in rows : i # j => df[i].SeriesTime # df[j].SeriesTime
\* the number n of the phase POST_n, 0 for PRE
PhaseNumber(phase) == CHOOSE n \in 0..NumRows : phase = PhaseName(n)

\* C27: k >= 2 rows of one study that share a fingerprint and have distinct
\* SeriesTimes form one dynamic group of exactly those rows, whose id no other
\* row carries; exactly one of them is PRE, the earliest, and the others are
\* POST_1, POST_2, ... in ascending SeriesTime order.
C27_OneGroupPreThenPosts ==
    df_pc \in {"analyzed", "recomputed"}
        => \A i \in 1..Len(df) :
               (Cardinality(SameSeries(i)) >= 2 /\ DistinctTimes(SameSeries(i)))
                   => /\ df[i].dynamicGroup # 0
                      /\ \A j \in 1..Len(df) :
                             df[j].dynamicGroup = df[i].dynamicGroup
                                 <=> j \in SameSeries(i)
                      /\ {df[j].dynamicPhase : j \in SameSeries(i)}
                             = {PhaseName(n) :
                                    n \in 0..(Cardinality(SameSeries(i)) - 1)}
                      /\ \A j \in SameSeries(i) :
                             df[j].SeriesTime < df[i].SeriesTime
                                 => PhaseNumber(df[j].dynamicPhase)
                                        < PhaseNumber(df[i].dynamicPhase)
                      /\ df[i].dynamicPhase = "PRE"
                             <=> \A j \in SameSeries(i) :
                                     df[i].SeriesTime <= df[j].SeriesTime

\* two studies with a dynamic set each, listed latest first: two groups with
\* different ids, each POST_1 then PRE
C27_Witness ==
    /\ df_pc = "analyzed"
    /\ \E i, j \in 1..(Len(df) - 1) :
           /\ SameSeries(i) = {i, i + 1}
           /\ SameSeries(j) = {j, j + 1}
           /\ DistinctTimes(SameSeries(i))
           /\ DistinctTimes(SameSeries(j))
           /\ df[i].dynamicGroup = 1
           /\ df[j].dynamicGroup = 2
           /\ df[i].dynamicPhase = "POST_1"
           /\ df[i + 1].dynamicPhase = "PRE"
           /\ df[j].dynamicPhase = "POST_1"
           /\ df[j + 1].dynamicPhase = "PRE"

(***************************************************************************)
(* C28.  isContrastEnhanced in the frame process_mri_dataframe returns.    *)
(***************************************************************************)
\* C28: in the returned frame every row that propagation has not changed has
\* isContrastEnhanced equal to the dynamic-group-aware conjunction (phase
\* starts with POST or the protocol matches the contrast regex, the agent is
\* present and not excluded, the class is not excluded); a PRE row whose
\* protocol does not match the contrast regex is not contrast-enhanced.
C28_EnhancedIsDynamicAware ==
    df_pc = "returned"
        => \A i \in 1..Len(df) :
               df[i].dynamicPhase # "POST_PROPAGATED"
                   => /\ df[i].isContrastEnhanced = DynamicAwareEnhanced(df[i])
                      /\ (/\ df[i].dynamicPhase = "PRE"
                          /\ ~MatchesContrastRegex(df[i].protocolName_lower))
                             => ~df[i].isContrastEnhanced

(***************************************************************************)
(* C29.  Enhancement propagation.                                          *)
(***************************************************************************)
\* the phase stage 4 gave the row
PhaseOfStage4(row) ==
    IF row.dynamicPhase = "POST_PROPAGATED" THEN "" ELSE row.dynamicPhase
\* the row is contrast-enhanced by the dynamic-group-aware conjunction
EnhancedAtStage4(row) ==
    DynamicAwareEnhanced([row EXCEPT !.dynamicPhase = PhaseOfStage4(row)])
\* the contrast-enhanced rows of the study of row i that have a SeriesTime
EnhancedInStudy(i) ==
    {j \in 1..Len(df) : /\ df[j].StudyInstanceUID = df[i].StudyInstanceUID
                        /\ EnhancedAtStage4(df[j])
                        /\ df[j].SeriesTime # 0}
\* the study of row i has a dynamic group {PRE, POST_1}
HasPrePostGroup(i) ==
    \E j, k \in 1..Len(df) :
        /\ df[j].StudyInstanceUID = df[i].StudyInstanceUID
        /\ df[k].StudyInstanceUID = df[i].StudyInstanceUID
        /\ df[j].dynamicGroup # 0
        /\ df[j].dynamicGroup = df[k].dynamicGroup
        /\ df[j].dynamicPhase = "PRE"
        /\ df[k].dynamicPhase = "POST_1"
\* row i is one propagation applies to
ToPropagate(i) ==
    /\ EnhancedInStudy(i) # {}
    /\ PhaseOfStage4(df[i]) = ""
    /\ ContainsT1(df[i].sequenceClass)
    /\ df[i].SeriesTime # 0
    /\ \A j \in EnhancedInStudy(i) : df[j].SeriesTime < df[i].SeriesTime

\* C29: in the returned frame, in a study with a dynamic group {PRE, POST_1},
\* an ungrouped T1 row later than the latest contrast-enhanced SeriesTime is
\* POST_PROPAGATED and contrast-enhanced; every other row (class without T1,
\* a phase already set, not later, study without an enhanced series) keeps its
\* phase.
C29_PropagationToLaterT1 ==
    df_pc = "returned"
        => \A i \in 1..Len(df) :
               /\ (HasPrePostGroup(i) /\ ToPropagate(i))
                      => /\ df[i].dynamicPhase = "POST_PROPAGATED"
                         /\ df[i].isContrastEnhanced
               /\ ~ToPropagate(i) => df[i].dynamicPhase # "POST_PROPAGATED"

(***************************************************************************)
(* C30.  The conversion_map of the metadata cache after a conversion.      *)
(***************************************************************************)
\* the kinds of output file an entry point leaves in the series directory
OutputKinds(r) == IF r.entry = "npz" THEN {"npz"} ELSE {"nii"}

\* C30: after a successful conversion of a series, in either mode, by the
\* tool or the libraries, to NIfTI or NPZ, conversion_map has a record for
\* every output file in the series directory and for no other file.
C30_ConversionMapReflectsOutputs ==
    \A w \in Workers :
        (cv[w].pc = "entry_returned" /\ cv[w].result = "success")
            => cv[w].conversion_map = OutputKinds(cv[w])

MoveInFlight == study.pc = "responses"

C33_PathAdvancedBetweenMoves ==
    /\ [](MoveInFlight =>
            /\ study.i \in 1..study.series_metadata
            /\ study.current_path = study.i)
    /\ [][/\ study'.current_path # study.current_path
               => /\ study.pc = "loop"
                  /\ ~MoveInFlight
                  /\ study'.current_path = study.i
          /\ (study.pc = "send_move" /\ study'.pc = "responses")
               => study.current_path = study.i
         ]_vars

\* the C-MOVE of the second series is in flight, the path is its directory,
\* and handle_store has saved an instance of each series in its own
C33_Witness ==
    /\ MoveInFlight
    /\ study.i = 2
    /\ study.current_path = 2
    /\ {<<1, 1>>, <<2, 2>>} \subseteq stored

(***************************************************************************)
(* C39: within one study, distinct discovered series have distinct series  *)
(* directories, and the directories handed to on_series_downloaded (which  *)
(* puts each on series_queue for the converters) are pairwise distinct,    *)
(* also when two series share series number and description.               *)
(***************************************************************************)
EnqueuedDir(k) == series_dir(study.series[study.callbacks[k]])

C39_DistinctSeriesDistinctDirectories ==
    /\ \A j, k \in 1..Len(study.series) :
          j # k => series_dir(study.series[j]) # series_dir(study.series[k])
    /\ \A j, k \in 1..Len(study.callbacks) :
          j # k => EnqueuedDir(j) # EnqueuedDir(k)

(***************************************************************************)
(* C34: when analyze_dynamic_series has returned, the rows of a set of two *)
(* or more rows of one study with one fingerprint in which no row has a    *)
(* valid SeriesTime have no dynamic group id and an empty dynamicPhase,    *)
(* while every such set of the frame with some valid SeriesTime has its    *)
(* group id and phases: the set is skipped and the loop goes on.           *)
(***************************************************************************)
C34_SetWithoutTimesIsSkipped ==
    df_pc = "analyzed" =>
        \A i \in 1..Len(df) :
            Cardinality(SameSeries(i)) > 1 =>
                IF \A j \in SameSeries(i) : df[j].SeriesTime = 0
                THEN df[i].dynamicGroup = 0 /\ df[i].dynamicPhase = ""
                ELSE df[i].dynamicGroup # 0 /\ df[i].dynamicPhase # ""

\* a study whose first set has no SeriesTime at all and whose second set has
\* been given group 1 and the phases POST_1, PRE
C34_Witness ==
    /\ df_pc = "analyzed"
    /\ Len(df) = 4
    /\ \A i \in 1..4 : df[i].StudyInstanceUID = 1
    /\ SameSeries(1) = {1, 2}
    /\ df[1].SeriesTime = 0 /\ df[2].SeriesTime = 0
    /\ df[1].dynamicPhase = "" /\ df[2].dynamicPhase = ""
    /\ SameSeries(3) = {3, 4}
    /\ df[3].dynamicGroup = 1 /\ df[4].dynamicGroup = 1
    /\ df[3].dynamicPhase = "POST_1" /\ df[4].dynamicPhase = "PRE"

(***************************************************************************)
(* C35: every label classify_sequence returns, other than the bare label   *)
(* UNKNOWN, names a contrast and a real family: its base label is not a    *)
(* contrast followed by UNKNOWN (PD_UNKNOWN is never produced), and a PD   *)
(* label is PD_ followed by one of GRE, GRE_SPOILED, GRE_STEADY_STATE, SE,  *)
(* TSE, SE_SingleShot, also when the family could not be determined.       *)
(***************************************************************************)
Families ==
    {"GRE", "GRE_SPOILED", "GRE_STEADY_STATE", "SE", "TSE", "SE_SingleShot"}

C35_NoUnknownFamilyInLabel ==
    (cl_pc = "done" /\ cl_result # Raised /\ cl_result # <<"UNKNOWN">>)
        => /\ cl_result[1] \notin {c \o "UNKNOWN" : c \in {"T1_", "T2_", "PD_"}}
           /\ HasAny(cl_row.name, {"pd"}) /\ ReachesRuleC
                 /\ ~HasAny(cl_row.name, {"tse_dark_fluid", "t1"})
                 => cl_result[1] \in {"PD_" \o f : f \in Families}

(***************************************************************************)
(* C36: the status values cancelled, completed and failed of a             *)
(* ProcessingTask are absorbing: no step of the cancel endpoint, of the    *)
(* worker's progress callbacks or of the worker's final status update      *)
(* changes a status that is one of them.                                   *)
(***************************************************************************)
TerminalStatus == {"cancelled", "completed", "failed"}

C36_TerminalStatusAbsorbing ==
    [][task.status \in TerminalStatus => task'.status = task.status]_vars

(***************************************************************************)
(* C40: in every result map process_complete_workflow returns, success is  *)
(* True if and only if the map has the key excel_file; so a run with       *)
(* auto_organize or auto_metadata disabled does not report success; and    *)
(* the workflow returns None exactly when download_study returned no       *)
(* directory.                                                              *)
(***************************************************************************)
C40_SuccessIffExcelFile ==
    /\ task.results = "results"
          => /\ task.success <=> "excel_file" \in task.keys
             /\ (~task.auto_organize \/ ~task.auto_metadata) => ~task.success
             /\ study.ret = "path"
    /\ task.results = "None" => study.ret = "None"
    /\ (task.pc \in {"wf_returned", "done"} /\ study.pc = "returned")
          => (task.results = "None" <=> study.ret = "None")

\* a web job with auto_metadata disabled: the map has the organized directory
\* and no workbook, and success is False
C40_Witness ==
    /\ task.caller = "web"
    /\ task.results = "results"
    /\ ~task.auto_metadata
    /\ task.keys = {"organized_dir", "series_info"}
    /\ ~task.success

(***************************************************************************)
(* C38: a batch job that got past the login and whose zip could be made    *)
(* has gone through every accession of the batch, ends in status           *)
(* completed, and total_processed plus total_failed of its result count    *)
(* every accession, also when process_complete_workflow raised or returned *)
(* None for some of them.                                                  *)
(***************************************************************************)
C38_BatchToleratesFailures ==
    (batch.pc = "done" /\ batch.cause \notin {"login", "zip"})
        => /\ Len(batch.results) = batch.total
           /\ batch.status = "completed"
           /\ batch.result # <<>>
           /\ batch.result[1] + batch.result[2] = batch.total

(***************************************************************************)
(* C37: cleanup_old_results removes the result directory or the zip of a   *)
(* task only when the worker thread of that task has finished; not while   *)
(* the worker is still executing, whatever the status of the task          *)
(* (cancelled included) and whenever the task started.                     *)
(***************************************************************************)
WorkerExecuting(t) == jobs[t].worker \in {"started", "working"}

C37_CleanupSparesRunningJobs ==
    [][\A t \in Tasks :
          jobs[t].items \ jobs'[t].items # {} => ~WorkerExecuting(t)]_vars

====
